---------------------------- MODULE Spec2Model ----------------------------
(***************************************************************************)
(* Model of the file organizer of src/tools/file-organizer: the scanner,   *)
(* the name normalizer (renamer.py), the planner and the executor          *)
(* (organizer.py) and the transaction log with its rollback (rollback.py). *)
(*                                                                         *)
(* A text is a sequence of one-character strings; a path is a sequence of  *)
(* components below the filesystem anchor "/", each component a text.      *)
(* The filesystem is the POSIX one the code runs on unchanged: names are   *)
(* case-sensitive, os.rename and shutil.move replace an existing file.     *)
(***************************************************************************)
EXTENDS Integers, Sequences, FiniteSets, TLC

(***************************************************************************)
(* Texts                                                                   *)
(***************************************************************************)
UpperChars ==
    <<"A","B","C","D","E","F","G","H","I","J","K","L","M",
      "N","O","P","Q","R","S","T","U","V","W","X","Y","Z">>

LowerChars ==
    <<"a","b","c","d","e","f","g","h","i","j","k","l","m",
      "n","o","p","q","r","s","t","u","v","w","x","y","z">>

DigitChars == <<"0","1","2","3","4","5","6","7","8","9">>

Range(s) == {s[k] : k \in DOMAIN s}

IsDigit(c) == c \in Range(DigitChars)

\* [A-Za-z0-9_], the class \w of the re module
IsWordChar(c) ==
    c \in Range(UpperChars) \cup Range(LowerChars) \cup Range(DigitChars) \cup {"_"}

IndexIn(seq, c) == CHOOSE k \in DOMAIN seq : seq[k] = c

\* str.lower() on one character
LowerChar(c) ==
    IF c \in Range(UpperChars) THEN LowerChars[IndexIn(UpperChars, c)] ELSE c

\* str.upper() on one character
UpperChar(c) ==
    IF c \in Range(LowerChars) THEN UpperChars[IndexIn(LowerChars, c)] ELSE c

\* str.lower()
Lower(s) == [k \in DOMAIN s |-> LowerChar(s[k])]

\* str.upper()
Upper(s) == [k \in DOMAIN s |-> UpperChar(s[k])]

RECURSIVE Join(_, _)
\* sep.join(parts)
Join(sep, parts) ==
    IF parts = <<>> THEN <<>>
    ELSE IF Len(parts) = 1 THEN parts[1]
    ELSE parts[1] \o sep \o Join(sep, Tail(parts))

RECURSIVE RemoveChars(_, _)
\* repeated str.replace(ch, "") for every ch of a set of characters
RemoveChars(s, chars) ==
    IF s = <<>> THEN <<>>
    ELSE IF Head(s) \in chars THEN RemoveChars(Tail(s), chars)
    ELSE <<Head(s)>> \o RemoveChars(Tail(s), chars)

RECURSIVE ReplaceChar(_, _, _)
\* str.replace(ch, rep) for a single character ch and a text rep
ReplaceChar(s, ch, rep) ==
    IF s = <<>> THEN <<>>
    ELSE (IF Head(s) = ch THEN rep ELSE <<Head(s)>>) \o ReplaceChar(Tail(s), ch, rep)

RECURSIVE LStrip(_, _)
\* str.lstrip(chars)
LStrip(s, chars) ==
    IF s # <<>> /\ Head(s) \in chars THEN LStrip(Tail(s), chars) ELSE s

RECURSIVE RStrip(_, _)
\* str.rstrip(chars)
RStrip(s, chars) ==
    IF s # <<>> /\ s[Len(s)] \in chars THEN RStrip(SubSeq(s, 1, Len(s) - 1), chars) ELSE s

\* str.strip(chars)
Strip(s, chars) == LStrip(RStrip(s, chars), chars)

\* s.startswith(p)
StartsWith(s, p) == Len(p) <= Len(s) /\ SubSeq(s, 1, Len(p)) = p

\* position of the last occurrence of ch in s, 0 when there is none
LastIndexOf(s, ch) ==
    IF \E k \in DOMAIN s : s[k] = ch
    THEN CHOOSE k \in DOMAIN s : s[k] = ch /\ \A m \in DOMAIN s : s[m] = ch => m <= k
    ELSE 0


\* the character at 1-based position k, "" beyond either end
At(s, k) == IF k \in DOMAIN s THEN s[k] ELSE ""

\* sub in s
Contains(s, sub) ==
    \E k \in 1..(Len(s) - Len(sub) + 1) : SubSeq(s, k, k + Len(sub) - 1) = sub

RECURSIVE DigitsToInt(_)
\* int(digits)
DigitsToInt(ds) ==
    IF ds = <<>> THEN 0
    ELSE 10 * DigitsToInt(SubSeq(ds, 1, Len(ds) - 1)) + (IndexIn(DigitChars, ds[Len(ds)]) - 1)

RECURSIVE IntToDigits(_)
\* str(n) for n >= 0
IntToDigits(n) ==
    IF n < 10 THEN <<DigitChars[n + 1]>>
    ELSE IntToDigits(n \div 10) \o <<DigitChars[(n % 10) + 1]>>

\* f"{n:02d}"
Format02d(n) == IF n < 10 THEN <<"0">> \o IntToDigits(n) ELSE IntToDigits(n)

(***************************************************************************)
(* config.py                                                               *)
(***************************************************************************)
Cat_Documents == <<"0","1","_","D","o","c","u","m","e","n","t","s">>

Cat_Images == <<"0","2","_","I","m","a","g","e","s">>

Cat_Other == <<"O","t","h","e","r">>

Ext_txt == <<".","t","x","t">>

Ext_pdf == <<".","p","d","f">>

Ext_jpg == <<".","j","p","g">>

\* the part of DEFAULT_CATEGORIES the modelled trees use: category -> extensions
DEFAULT_CATEGORIES ==
    << [category |-> Cat_Documents, extensions |-> {Ext_pdf, Ext_txt}],
       [category |-> Cat_Images, extensions |-> {Ext_jpg}] >>

NAMING_RULES ==
    [ word_separator |-> <<"-">>,
      element_separator |-> <<"_">>,
      lowercase |-> TRUE,
      \* "BACKTICK" stands for the grave accent
      strip_characters |-> {"!","@","#","$","%","^","&","(",")","+","=","{","}",
                            "[","]","|",";","'",",","BACKTICK","~"},
      max_filename_length |-> 50,
      collapse_separators |-> TRUE,
      strip_edge_separators |-> TRUE,
      add_date_prefix |-> TRUE ]

LOG_DIR_NAME ==
    <<".","f","i","l","e","-","o","r","g","a","n","i","z","e","r","-","l","o","g","s">>

Dir_git == <<".","g","i","t">>

\* the part of SKIP_DIRECTORIES the modelled trees use
SKIP_DIRECTORIES == {Dir_git, LOG_DIR_NAME}

SKIP_FILES == { <<"d","e","s","k","t","o","p",".","i","n","i">>,
                <<"t","h","u","m","b","s",".","d","b">> }

WINDOWS_RESERVED_NAMES ==
    { <<"C","O","N">>, <<"P","R","N">>, <<"A","U","X">>, <<"N","U","L">> }
    \cup { <<"C","O","M",d>> : d \in {"1","2","3","4","5","6","7","8","9"} }
    \cup { <<"L","P","T",d>> : d \in {"1","2","3","4","5","6","7","8","9"} }

WINDOWS_INVALID_CHARS == {"<", ">", ":", "\"", "/", "\\", "|", "?", "*"}

(***************************************************************************)
(* renamer.py                                                              *)
(***************************************************************************)
NoMatch == [ok |-> FALSE, start |-> 0, end |-> 0, text |-> <<>>]

\* position after an optional separator of the greedy class seps at k
SkipOpt(s, k, seps) == IF At(s, k) \in seps THEN k + 1 ELSE k

DateSeps == {"_", "-"}

\* (20\d{2})[_\-]?([01]\d)[_\-]?([0-3]\d) anchored at k; text is YYYYMMDD
DateYMDAt(s, k) ==
    LET m == SkipOpt(s, k + 4, DateSeps)
        d == SkipOpt(s, m + 2, DateSeps)
    IN  IF /\ At(s, k) = "2" /\ At(s, k + 1) = "0"
           /\ IsDigit(At(s, k + 2)) /\ IsDigit(At(s, k + 3))
           /\ At(s, m) \in {"0", "1"} /\ IsDigit(At(s, m + 1))
           /\ At(s, d) \in {"0", "1", "2", "3"} /\ IsDigit(At(s, d + 1))
        THEN [ok |-> TRUE, start |-> k, end |-> d + 2,
              text |-> SubSeq(s, k, k + 3) \o SubSeq(s, m, m + 1) \o SubSeq(s, d, d + 1)]
        ELSE NoMatch

\* ([01]\d)[_\-]?([0-3]\d)[_\-]?(20\d{2}) anchored at k; text is YYYYMMDD
DateMDYAt(s, k) ==
    LET d == SkipOpt(s, k + 2, DateSeps)
        y == SkipOpt(s, d + 2, DateSeps)
    IN  IF /\ At(s, k) \in {"0", "1"} /\ IsDigit(At(s, k + 1))
           /\ At(s, d) \in {"0", "1", "2", "3"} /\ IsDigit(At(s, d + 1))
           /\ At(s, y) = "2" /\ At(s, y + 1) = "0"
           /\ IsDigit(At(s, y + 2)) /\ IsDigit(At(s, y + 3))
        THEN [ok |-> TRUE, start |-> k, end |-> y + 4,
              text |-> SubSeq(s, y, y + 3) \o SubSeq(s, k, k + 1) \o SubSeq(s, d, d + 1)]
        ELSE NoMatch

\* (20\d{2})[_\-]?([01]\d)(?!\d) anchored at k; text is YYYYMM
DateYMAt(s, k) ==
    LET m == SkipOpt(s, k + 4, DateSeps)
    IN  IF /\ At(s, k) = "2" /\ At(s, k + 1) = "0"
           /\ IsDigit(At(s, k + 2)) /\ IsDigit(At(s, k + 3))
           /\ At(s, m) \in {"0", "1"} /\ IsDigit(At(s, m + 1))
           /\ ~IsDigit(At(s, m + 2))
        THEN [ok |-> TRUE, start |-> k, end |-> m + 2,
              text |-> SubSeq(s, k, k + 3) \o SubSeq(s, m, m + 1)]
        ELSE NoMatch

\* the smallest element of a non-empty set of positions
MinOf(S) == CHOOSE k \in S : \A h \in S : k <= h

\* the k-th entry of _DATE_PATTERNS anchored at position at
DateAt(s, pat, at) ==
    CASE pat = 1 -> DateYMDAt(s, at)
      [] pat = 2 -> DateMDYAt(s, at)
      [] OTHER   -> DateYMAt(s, at)

LeftmostDate(s, pat, hits) ==
    IF hits = {} THEN NoMatch ELSE DateAt(s, pat, MinOf(hits))

\* pattern.search(name) for the k-th entry of _DATE_PATTERNS: the leftmost match
DateSearch(s, pat) == LeftmostDate(s, pat, {k \in DOMAIN s : DateAt(s, pat, k).ok})

\* the first pattern of _DATE_PATTERNS that matches decides
FirstMatch(m1, m2, m3) == IF m1.ok THEN m1 ELSE IF m2.ok THEN m2 ELSE m3

\* name[:m.start()] + name[m.end():]
CutOut(name, m) == SubSeq(name, 1, m.start - 1) \o SubSeq(name, m.end, Len(name))

DateResult(name, m) ==
    IF m.ok THEN [date |-> m.text, cleaned |-> CutOut(name, m)]
    ELSE [date |-> <<>>, cleaned |-> name]

\* (date_str or <<>> for None, name with the date removed)
_extract_existing_date(name) ==
    DateResult(name, FirstMatch(DateSearch(name, 1), DateSearch(name, 2),
                                DateSearch(name, 3)))

\* \s of the re module, as far as the modelled names go
WhiteSpace == {" ", "TAB"}

RECURSIVE DigitRunEnd(_, _)
\* position after the run of digits that starts at k
DigitRunEnd(s, k) == IF IsDigit(At(s, k)) THEN DigitRunEnd(s, k + 1) ELSE k

\* the positions after "version", "ver" and "v" for a "v" at k, in the order
\* the engine tries the alternatives of (?:er(?:sion)?)?; 0: no such alternative
AfterV(s, k) ==
    << IF k + 6 <= Len(s) /\ Lower(SubSeq(s, k + 1, k + 6)) = <<"e","r","s","i","o","n">>
       THEN k + 7 ELSE 0,
       IF k + 2 <= Len(s) /\ Lower(SubSeq(s, k + 1, k + 2)) = <<"e","r">>
       THEN k + 3 ELSE 0,
       k + 1 >>

\* the position of the number after the optional [_\-\s.] at q
NumberStart(s, q) == SkipOpt(s, q, {"_", "-", "."} \cup WhiteSpace)

\* the alternatives after which a number follows
GoodAlternatives(s, afterV) ==
    {a \in 1..3 : afterV[a] # 0 /\ IsDigit(At(s, NumberStart(s, afterV[a])))}

\* the end of \d+(?:\.\d+)? given the end e1 of its first run of digits
NumberEnd(s, e1) ==
    IF At(s, e1) = "." /\ IsDigit(At(s, e1 + 1)) THEN DigitRunEnd(s, e1 + 1) ELSE e1

VersionMatch(s, k, n, e) == [ok |-> TRUE, start |-> k, end |-> e, text |-> SubSeq(s, n, e - 1)]

VersionNumberAt(s, k, n) == VersionMatch(s, k, n, NumberEnd(s, DigitRunEnd(s, n)))

VersionBodyFrom(s, k, afterV, good) ==
    IF LowerChar(At(s, k)) = "v" /\ good # {}
    THEN VersionNumberAt(s, k, NumberStart(s, afterV[MinOf(good)]))
    ELSE NoMatch

\* v(?:er(?:sion)?)?[_\-\s.]?(\d+(?:\.\d+)?) with IGNORECASE, the "v" at k;
\* text is group 1
VersionBodyAt(s, k) == VersionBodyFrom(s, k, AfterV(s, k), GoodAlternatives(s, AfterV(s, k)))

SepThenBody(k, withSep, bare) == IF withSep.ok THEN [withSep EXCEPT !.start = k] ELSE bare

\* _VERSION_PATTERN anchored at k: the optional leading separator is tried first
VersionAt(s, k) ==
    SepThenBody(k,
                IF At(s, k) \in {"_", "-"} \cup WhiteSpace
                THEN VersionBodyAt(s, k + 1) ELSE NoMatch,
                VersionBodyAt(s, k))

LeftmostVersion(s, hits) == IF hits = {} THEN NoMatch ELSE VersionAt(s, MinOf(hits))

\* _VERSION_PATTERN.search(name)
VersionSearch(s) == LeftmostVersion(s, {k \in DOMAIN s : VersionAt(s, k).ok})

VersionResult(name, m) ==
    IF ~m.ok THEN [version |-> <<>>, cleaned |-> name]
    ELSE [version |-> IF "." \in Range(m.text)
                      THEN <<"v">> \o m.text
                      ELSE <<"v">> \o Format02d(DigitsToInt(m.text)),
          cleaned |-> CutOut(name, m)]

\* (version or <<>> for None, name with the version removed)
_extract_existing_version(name) == VersionResult(name, VersionSearch(name))

RECURSIVE AsciiFold(_)
\* unicodedata.normalize("NFKD", name).encode("ascii", "ignore").decode("ascii")
AsciiFold(s) ==
    IF s = <<>> THEN <<>>
    ELSE (CASE Head(s) = "E_ACUTE" -> <<"e">>
            [] Head(s) = "EM_DASH" -> <<>>
            [] OTHER -> <<Head(s)>>) \o AsciiFold(Tail(s))

RECURSIVE RunEnd(_, _, _)
\* position after the run of the character c that starts at k
RunEnd(s, k, c) == IF At(s, k) = c THEN RunEnd(s, k + 1, c) ELSE k

RECURSIVE CollapseFrom(_, _, _)
\* re.sub(re.escape(sep) + r"{2,}", sep, s) from position k on: the quantifier
\* binds to the last character of sep alone
CollapseFrom(s, k, sep) ==
    IF k > Len(s) THEN <<>>
    ELSE IF /\ k + Len(sep) - 1 <= Len(s)
            /\ SubSeq(s, k, k + Len(sep) - 2) = SubSeq(sep, 1, Len(sep) - 1)
            /\ RunEnd(s, k + Len(sep) - 1, sep[Len(sep)]) - (k + Len(sep) - 1) >= 2
         THEN sep \o CollapseFrom(s, RunEnd(s, k + Len(sep) - 1, sep[Len(sep)]), sep)
         ELSE <<s[k]>> \o CollapseFrom(s, k + 1, sep)

\* the replacements of _clean_stem: invalid and configured characters go,
\* spaces, tabs and underscores become the word separator
CleanChars(name, rules) ==
    ReplaceChar(
        ReplaceChar(
            ReplaceChar(
                RemoveChars(RemoveChars(AsciiFold(name), WINDOWS_INVALID_CHARS),
                            rules.strip_characters),
                " ", rules.word_separator),
            "TAB", rules.word_separator),
        "_", rules.word_separator)

LowerIf(s, rules) == IF rules.lowercase THEN Lower(s) ELSE s

CollapseIf(s, rules) ==
    IF rules.collapse_separators /\ rules.word_separator # <<>>
    THEN CollapseFrom(s, 1, rules.word_separator) ELSE s

StripEdgesIf(s, rules) ==
    IF rules.strip_edge_separators /\ rules.word_separator # <<>>
    THEN Strip(s, Range(rules.word_separator)) ELSE s

_clean_stem(name, rules) ==
    StripEdgesIf(CollapseIf(LowerIf(CleanChars(name, rules), rules), rules), rules)

\* the alternatives of ^(img|dsc|dscn|dscf|sam|p|wp|imag)\b-? in order
CameraPrefixes ==
    << <<"i","m","g">>, <<"d","s","c">>, <<"d","s","c","n">>, <<"d","s","c","f">>,
       <<"s","a","m">>, <<"p">>, <<"w","p">>, <<"i","m","a","g">> >>

\* the alternatives that match at the start and end at a word boundary
PrefixAlternatives(descriptor) ==
    {a \in DOMAIN CameraPrefixes :
        /\ StartsWith(descriptor, CameraPrefixes[a])
        /\ ~IsWordChar(At(descriptor, Len(CameraPrefixes[a]) + 1))}

DropPrefix(descriptor, good) ==
    IF good = {} THEN descriptor
    ELSE SubSeq(descriptor,
                SkipOpt(descriptor, Len(CameraPrefixes[MinOf(good)]) + 1, {"-"}),
                Len(descriptor))

\* re.sub(r"^(img|dsc|dscn|dscf|sam|p|wp|imag)\b-?", "", descriptor)
StripCameraPrefix(descriptor) == DropPrefix(descriptor, PrefixAlternatives(descriptor))

MediaWords ==
    { <<"i","m","a","g","e">>, <<"a","u","d","i","o">>,
      <<"v","i","d","e","o">>, <<"p","h","o","t","o">> }

\* the descriptor of normalize_filename
Descriptor(name_cleaned, rules) ==
    Strip(StripCameraPrefix(_clean_stem(name_cleaned, rules)), {"-"})

\* the date of the name, or the file's date when the name has none
DateOrFileDate(date_in_name, rules, file_date) ==
    IF date_in_name = <<>> /\ rules.add_date_prefix /\ file_date # <<>>
    THEN file_date ELSE date_in_name

IsMedia(category) ==
    category # <<>> /\ \E w \in MediaWords : Contains(Lower(category), w)

\* a list of one part, none for an empty part
Part(x) == IF x = <<>> THEN <<>> ELSE <<x>>

\* the parts in their type-specific order
Parts(descriptor, date_str, version_str, category) ==
    (IF IsMedia(category) /\ date_str # <<>>
     THEN <<date_str>> \o Part(descriptor)
     ELSE Part(descriptor) \o Part(date_str)) \o Part(version_str)

\* stem[:max_len].rstrip("-").rstrip("_") for a stem longer than max_len
Truncate(stem, max_len) ==
    IF Len(stem) > max_len
    THEN RStrip(RStrip(SubSeq(stem, 1, max_len), {"-"}), {"_"})
    ELSE stem

ReservedSafe(stem, elem_sep) ==
    IF Upper(stem) \in WINDOWS_RESERVED_NAMES
    THEN stem \o elem_sep \o <<"f","i","l","e">> ELSE stem

NonEmptyStem(stem, date_str) ==
    IF stem # <<>> THEN stem
    ELSE IF date_str # <<>> THEN date_str
    ELSE <<"u","n","n","a","m","e","d">>

Assemble(descriptor, date_str, version_str, extension, rules, category) ==
    NonEmptyStem(
        ReservedSafe(
            Truncate(Join(rules.element_separator,
                          Parts(descriptor, date_str, version_str, category)),
                     rules.max_filename_length),
            rules.element_separator),
        date_str)
    \o LowerIf(extension, rules)

NormalizeVersioned(date_in_name, v, extension, rules, file_date, category) ==
    Assemble(Descriptor(v.cleaned, rules),
             DateOrFileDate(date_in_name, rules, file_date),
             v.version, extension, rules, category)

NormalizeDated(d, extension, rules, file_date, category) ==
    NormalizeVersioned(d.date, _extract_existing_version(d.cleaned), extension, rules,
                       file_date, category)

\* normalize_filename(name, extension, rules, filepath, category); file_date is
\* _get_file_date(filepath), <<>> when no filepath is passed, and category is
\* <<>> when no category is passed
normalize_filename(name, extension, rules, file_date, category) ==
    NormalizeDated(_extract_existing_date(name), extension, rules, file_date, category)

(***************************************************************************)
(* pathlib: a path is the sequence of its components below the anchor "/"  *)
(***************************************************************************)
\* PurePath.suffix of a file name
PathSuffix(name) ==
    LET k == LastIndexOf(name, ".")
    IN  IF 1 < k /\ k < Len(name) THEN SubSeq(name, k, Len(name)) ELSE <<>>

\* PurePath.stem of a file name
PathStem(name) == SubSeq(name, 1, Len(name) - Len(PathSuffix(name)))

\* Path.parent
Parent(p) == SubSeq(p, 1, Len(p) - 1)

\* Path.name
BaseName(p) == p[Len(p)]

RECURSIVE SplitPath(_)
\* the components of a path text: empty and "." components are dropped
SplitPath(text) ==
    LET k == IF "/" \in Range(text)
             THEN CHOOSE j \in DOMAIN text :
                      text[j] = "/" /\ \A m \in 1..(j - 1) : text[m] # "/"
             ELSE Len(text) + 1
        first == SubSeq(text, 1, k - 1)
        rest == IF k >= Len(text) THEN <<>> ELSE SplitPath(SubSeq(text, k + 1, Len(text)))
    IN  IF text = <<>> THEN <<>>
        ELSE (IF first = <<>> \/ first = <<".">> THEN <<>> ELSE <<first>>) \o rest

\* Path(text) of an absolute path text
PathOf(text) == SplitPath(text)

\* str(path)
StrOf(p) == <<"/">> \o Join(<<"/">>, p)

\* path / text: an absolute text replaces the path
JoinPath(p, text) ==
    IF text # <<>> /\ text[1] = "/" THEN SplitPath(text) ELSE p \o SplitPath(text)

\* a is a proper ancestor of b
IsProperPrefix(a, b) == Len(a) < Len(b) /\ SubSeq(b, 1, Len(a)) = a

(***************************************************************************)
(* scanner.py                                                              *)
(***************************************************************************)
\* build_extension_map(categories)[ext], "Other" when the extension is unknown:
\* a later category overrides an earlier one
CategoryOf(categories, ext) ==
    LET hits == {k \in DOMAIN categories :
                    ext \in {Lower(e) : e \in categories[k].extensions}}
    IN  IF hits = {} THEN Cat_Other
        ELSE categories[CHOOSE k \in hits : \A h \in hits : h <= k].category

\* FileEntry.from_path(filepath, category) without deep_scan
FileEntry(filepath, categories) ==
    [ path |-> filepath,
      name |-> BaseName(filepath),
      stem |-> PathStem(BaseName(filepath)),
      extension |-> Lower(PathSuffix(BaseName(filepath))),
      category |-> CategoryOf(categories, Lower(PathSuffix(BaseName(filepath)))),
      parent |-> Parent(filepath) ]

\* the files scan_directory reports: below root, under no pruned directory,
\* not a skipped file name, and directly in root when the walk is not recursive
\* skip_dirs or SKIP_DIRECTORIES, skip_files or SKIP_FILES: an empty set is
\* falsy and gives way to the default
OrDefault(names, default) == IF names = {} THEN default ELSE names

ScannedPaths(filepaths, root, recursive, skip_dirs, skip_files) ==
    { f \in filepaths :
        /\ IsProperPrefix(root, f)
        /\ \A k \in (Len(root) + 1)..(Len(f) - 1) :
               Lower(f[k]) \notin {Lower(d) : d \in skip_dirs}
        /\ Lower(BaseName(f)) \notin {Lower(n) : n \in skip_files}
        /\ (recursive \/ Parent(f) = root) }

\* the orders in which os.walk(root, topdown=True) can report a set of files:
\* the listing order inside a directory is the filesystem's, the files of a
\* directory come together and before the files of its subdirectories
WalkOrders(found) ==
    { order \in [1..Cardinality(found) -> found] :
        /\ \A a, b \in DOMAIN order : a # b => order[a] # order[b]
        /\ \A a, b \in DOMAIN order :
               a < b => ~IsProperPrefix(Parent(order[b]), Parent(order[a]))
        /\ \A a, b, c \in DOMAIN order :
               (a < b /\ b < c /\ Parent(order[a]) = Parent(order[c]))
                   => Parent(order[b]) = Parent(order[a]) }

(***************************************************************************)
(* organizer.py: planning                                                  *)
(***************************************************************************)
RECURSIVE DedupCounter(_, _, _, _)
\* the loop of _deduplicate: the first candidate f"{stem}-{counter}{ext}" whose
\* lowercase form is unused
DedupCounter(stem, ext, existing, counter) ==
    LET candidate == stem \o <<"-">> \o IntToDigits(counter) \o ext
    IN  IF Lower(candidate) \notin existing THEN candidate
        ELSE DedupCounter(stem, ext, existing, counter + 1)

\* a planner that hands out the normalized name without looking at the names
\* already taken
_deduplicate_unchecked(name, existing) == name

_deduplicate(name, existing) ==
    IF Lower(name) \notin existing THEN name
    ELSE DedupCounter(PathStem(name), PathSuffix(name), existing, 1)

EmptyPlan == [renames |-> <<>>, moves |-> <<>>]

\* used_names[dest_dir], the empty set for a directory not seen yet
UsedIn(used_names, dest_dir) ==
    IF dest_dir \in DOMAIN used_names THEN used_names[dest_dir] ELSE {}

\* a planner that records a rename for every changed name, whether or not the
\* file stays in its directory
PlanActions_rename_always(p, entry, final_name, dest_path, organize_into_folders) ==
    [ renames |-> IF final_name # entry.name
                  THEN Append(p.renames, [original |-> entry.path, new_path |-> dest_path])
                  ELSE p.renames,
      moves |-> IF organize_into_folders /\ dest_path # entry.path
                THEN Append(p.moves, [original |-> entry.path, destination |-> dest_path,
                                      category |-> entry.category])
                ELSE p.moves ]

\* the actions one entry adds to the plan
PlanActions(p, entry, final_name, dest_path, organize_into_folders) ==
    [ renames |-> IF final_name # entry.name /\ ~organize_into_folders
                  THEN Append(p.renames, [original |-> entry.path, new_path |-> dest_path])
                  ELSE p.renames,
      moves |-> IF organize_into_folders /\ dest_path # entry.path
                THEN Append(p.moves, [original |-> entry.path, destination |-> dest_path,
                                      category |-> entry.category])
                ELSE p.moves ]

\* used_names[dest_dir].add(final_name.lower())
AddUsed(used_names, dest_dir, final_name) ==
    [d \in DOMAIN used_names \cup {dest_dir} |->
        IF d = dest_dir THEN UsedIn(used_names, dest_dir) \cup {Lower(final_name)}
        ELSE used_names[d]]

PlanNamed(acc, entry, dest_dir, final_name, organize_into_folders) ==
    [ used_names |-> AddUsed(acc.used_names, dest_dir, final_name),
      plan |-> PlanActions(acc.plan, entry, final_name, JoinPath(dest_dir, final_name),
                           organize_into_folders) ]

PlanInto(acc, entry, dest_dir, rename_rules, organize_into_folders) ==
    PlanNamed(acc, entry, dest_dir,
              _deduplicate(normalize_filename(entry.stem, entry.extension, rename_rules,
                                              <<>>, <<>>),
                           UsedIn(acc.used_names, dest_dir)),
              organize_into_folders)

\* one iteration of the loop of plan_organization
PlanEntry(acc, entry, target_root, rename_rules, organize_into_folders) ==
    PlanInto(acc, entry,
             IF organize_into_folders THEN JoinPath(target_root, entry.category)
             ELSE entry.parent,
             rename_rules, organize_into_folders)

RECURSIVE PlanLoop(_, _, _, _, _)
PlanLoop(acc, entries, target_root, rename_rules, organize_into_folders) ==
    IF entries = <<>> THEN acc
    ELSE PlanLoop(PlanEntry(acc, Head(entries), target_root, rename_rules,
                            organize_into_folders),
                  Tail(entries), target_root, rename_rules, organize_into_folders)

plan_organization(entries, target_root, rename_rules, organize_into_folders) ==
    PlanLoop([used_names |-> <<>>, plan |-> EmptyPlan], entries, target_root,
             rename_rules, organize_into_folders).plan

\* OrganizePlan.total_actions
total_actions(p) == Len(p.renames) + Len(p.moves)

(***************************************************************************)
(* The filesystem: files maps the path of every regular file to its        *)
(* content, dirs is the set of directories.  A call returns the new        *)
(* filesystem, or the errno it raises and the filesystem unchanged.        *)
(***************************************************************************)
IsFile(fs, p) == p \in DOMAIN fs.files

IsDir(fs, p) == p \in fs.dirs

\* Path.exists()
PathExists(fs, p) == IsFile(fs, p) \/ IsDir(fs, p)

\* any(d.iterdir())
HasEntries(fs, d) == \E q \in DOMAIN fs.files \cup fs.dirs : q # <<>> /\ Parent(q) = d

Done(fs) == [ok |-> TRUE, err |-> "", fs |-> fs]

Raised(fs, errno) == [ok |-> FALSE, err |-> errno, fs |-> fs]

WithoutFile(files, p) == [q \in DOMAIN files \ {p} |-> files[q]]

WithFile(files, p, content) ==
    [q \in DOMAIN files \cup {p} |-> IF q = p THEN content ELSE files[q]]

\* os.rename(src, dst) of a regular file: an existing file at dst is replaced
os_rename(fs, src, dst) ==
    IF ~IsFile(fs, src) THEN Raised(fs, "ENOENT")
    ELSE IF dst = <<>> \/ IsDir(fs, dst) THEN Raised(fs, "EISDIR")
    ELSE IF IsFile(fs, Parent(dst)) THEN Raised(fs, "ENOTDIR")
    ELSE IF ~IsDir(fs, Parent(dst)) THEN Raised(fs, "ENOENT")
    ELSE IF src = dst THEN Done(fs)
    ELSE Done([fs EXCEPT !.files = WithFile(WithoutFile(fs.files, src), dst, fs.files[src])])

\* the ancestors of d that Path.mkdir(parents=True) has to create, d included
MissingDirs(fs, d) == {SubSeq(d, 1, k) : k \in 0..Len(d)} \ fs.dirs

\* Path.mkdir(parents=True, exist_ok=True)
mkdir_parents(fs, d) ==
    IF IsDir(fs, d) THEN Done(fs)
    ELSE IF IsFile(fs, d) THEN Raised(fs, "EEXIST")
    ELSE IF \E q \in MissingDirs(fs, d) : IsFile(fs, q) THEN Raised(fs, "ENOTDIR")
    ELSE Done([fs EXCEPT !.dirs = fs.dirs \cup MissingDirs(fs, d)])

\* shutil.move(src, dst) of a regular file inside one filesystem
shutil_move(fs, src, dst) ==
    IF IsDir(fs, dst)
    THEN (IF PathExists(fs, dst \o <<BaseName(src)>>)
          THEN Raised(fs, "shutil.Error")
          ELSE os_rename(fs, src, dst \o <<BaseName(src)>>))
    ELSE os_rename(fs, src, dst)

\* Path.rmdir()
os_rmdir(fs, d) ==
    IF ~IsDir(fs, d) THEN Raised(fs, "ENOENT")
    ELSE IF HasEntries(fs, d) THEN Raised(fs, "ENOTEMPTY")
    ELSE Done([fs EXCEPT !.dirs = fs.dirs \ {d}])

\* Path.write_text(text): creates the file or replaces its content
write_text(fs, p, content) ==
    IF IsDir(fs, p) THEN Raised(fs, "EISDIR")
    ELSE IF ~IsDir(fs, Parent(p)) THEN Raised(fs, "ENOENT")
    ELSE Done([fs EXCEPT !.files = WithFile(fs.files, p, content)])

(***************************************************************************)
(* organizer.py: execution.  A step works on st = [fs, result, calls]:     *)
(* the filesystem, the ExecutionResult and the number of mutating          *)
(* filesystem calls issued so far.  denied says whether the operating      *)
(* system refuses the rename or move of this action (PermissionError).     *)
(***************************************************************************)
\* the log entry of a rename
RenameEntry(action, dry_run) ==
    IF dry_run
    THEN [type |-> "rename", from |-> StrOf(action.original),
          to |-> StrOf(action.new_path), dry_run |-> TRUE]
    ELSE [type |-> "rename", from |-> StrOf(action.original),
          to |-> StrOf(action.new_path)]

\* an executor whose real-run entries of moves leave the category out
MoveEntry_no_category(action, dry_run) ==
    IF dry_run
    THEN [type |-> "move", from |-> StrOf(action.original),
          to |-> StrOf(action.destination), category |-> action.category,
          dry_run |-> TRUE]
    ELSE [type |-> "move", from |-> StrOf(action.original),
          to |-> StrOf(action.destination)]

\* the log entry of a move
MoveEntry(action, dry_run) ==
    IF dry_run
    THEN [type |-> "move", from |-> StrOf(action.original),
          to |-> StrOf(action.destination), category |-> action.category,
          dry_run |-> TRUE]
    ELSE [type |-> "move", from |-> StrOf(action.original),
          to |-> StrOf(action.destination), category |-> action.category]

\* the message execute_plan and rollback record for a caught exception
ErrorText(errno) == IF errno = "EACCES" THEN "Permission denied" ELSE errno

\* the dry-run branch of the loop over plan.renames: the entry is logged,
\* the action counted, nothing is touched
DryRename(st, action) ==
    [st EXCEPT !.result.renames_done = @ + 1,
               !.result.log_entries = Append(@, RenameEntry(action, TRUE))]

\* an executor that writes the log entry of a rename before it calls rename
RealRename_logged_first(st, action, denied) ==
    LET r == IF denied THEN Raised(st.fs, "EACCES")
             ELSE os_rename(st.fs, action.original, action.new_path)
    IN  IF r.ok
        THEN [fs |-> r.fs,
              result |-> [st.result EXCEPT
                              !.renames_done = @ + 1,
                              !.log_entries = Append(@, RenameEntry(action, FALSE))],
              calls |-> st.calls + 1]
        ELSE [fs |-> r.fs,
              result |-> [st.result EXCEPT
                              !.log_entries = Append(@, RenameEntry(action, FALSE)),
                              !.errors = Append(@, [path |-> action.original,
                                                    error |-> ErrorText(r.err)])],
              calls |-> st.calls + 1]

\* action.original.rename(action.new_path) and what the loop records for it
RealRename(st, action, denied) ==
    LET r == IF denied THEN Raised(st.fs, "EACCES")
             ELSE os_rename(st.fs, action.original, action.new_path)
    IN  IF r.ok
        THEN [fs |-> r.fs,
              result |-> [st.result EXCEPT
                              !.renames_done = @ + 1,
                              !.log_entries = Append(@, RenameEntry(action, FALSE))],
              calls |-> st.calls + 1]
        ELSE [fs |-> r.fs,
              result |-> [st.result EXCEPT
                              !.errors = Append(@, [path |-> action.original,
                                                    error |-> ErrorText(r.err)])],
              calls |-> st.calls + 1]

\* one iteration of the loop over plan.renames
ExecuteRenameStep(st, action, dry_run, denied) ==
    IF dry_run THEN DryRename(st, action) ELSE RealRename(st, action, denied)

\* an executor that creates the destination directory before it looks at
\* dry_run
DryMove_mkdir(st, action) ==
    [fs |-> mkdir_parents(st.fs, Parent(action.destination)).fs,
     result |-> [st.result EXCEPT
                     !.moves_done = @ + 1,
                     !.log_entries = Append(@, MoveEntry(action, TRUE))],
     calls |-> st.calls + 1]

\* the dry-run branch of the loop over plan.moves
DryMove(st, action) ==
    [st EXCEPT !.result.moves_done = @ + 1,
               !.result.log_entries = Append(@, MoveEntry(action, TRUE))]

\* destination.parent.mkdir(parents=True, exist_ok=True), shutil.move and what
\* the loop records for them
RealMove(st, action, denied) ==
    LET m == mkdir_parents(st.fs, Parent(action.destination))
        r == IF ~m.ok THEN m
             ELSE IF denied THEN Raised(m.fs, "EACCES")
             ELSE shutil_move(m.fs, action.original, action.destination)
    IN  IF r.ok
        THEN [fs |-> r.fs,
              result |-> [st.result EXCEPT
                              !.moves_done = @ + 1,
                              !.log_entries = Append(@, MoveEntry(action, FALSE))],
              calls |-> st.calls + 2]
        ELSE [fs |-> r.fs,
              result |-> [st.result EXCEPT
                              !.errors = Append(@, [path |-> action.original,
                                                    error |-> ErrorText(r.err)])],
              calls |-> st.calls + (IF m.ok THEN 2 ELSE 1)]

\* one iteration of the loop over plan.moves
ExecuteMoveStep(st, action, dry_run, denied) ==
    IF dry_run THEN DryMove(st, action) ELSE RealMove(st, action, denied)

\* ExecutionResult()
NoResult == [renames_done |-> 0, moves_done |-> 0, errors |-> <<>>, log_entries |-> <<>>]

RECURSIVE ExecuteRenames(_, _, _)
\* the loop over plan.renames when the operating system refuses nothing
ExecuteRenames(st, renames, dry_run) ==
    IF renames = <<>> THEN st
    ELSE ExecuteRenames(ExecuteRenameStep(st, Head(renames), dry_run, FALSE),
                        Tail(renames), dry_run)

RECURSIVE ExecuteMoves(_, _, _)
\* the loop over plan.moves when the operating system refuses nothing
ExecuteMoves(st, moves, dry_run) ==
    IF moves = <<>> THEN st
    ELSE ExecuteMoves(ExecuteMoveStep(st, Head(moves), dry_run, FALSE),
                      Tail(moves), dry_run)

\* execute_plan(plan, dry_run) on the filesystem f: renames first, then moves
execute_plan(f, p, dry_run) ==
    ExecuteMoves(ExecuteRenames([fs |-> f, result |-> NoResult, calls |-> 0],
                                p.renames, dry_run),
                 p.moves, dry_run)

(***************************************************************************)
(* rollback.py                                                             *)
(***************************************************************************)
\* the path get_log_dir(root) returns; its mkdir is issued in save_log below
get_log_dir(root) == JoinPath(root, LOG_DIR_NAME)

\* the clock counts ticks, as fine as isoformat() shows them
TicksPerSecond == 2

\* strftime("%Y%m%d-%H%M%S") of the clock at tick t: the whole seconds only
Second(t) == t \div TicksPerSecond

\* the name save_log gives the log written at tick t: the text of the second
\* stands for strftime("%Y%m%d-%H%M%S")
LogFileName(t, dry_run) ==
    <<"c","h","a","n","g","e","s","-">> \o IntToDigits(Second(t))
        \o (IF dry_run THEN <<"-","d","r","y","-","r","u","n">> ELSE <<>>)
        \o <<".","j","s","o","n">>

\* the payload save_log serializes
LogPayload(t, log_entries, dry_run) ==
    [ timestamp |-> t, dry_run |-> dry_run,
      actions_count |-> Len(log_entries), actions |-> log_entries ]

\* json.dumps(payload): the content of a file that holds a JSON document
JsonText(payload) == [kind |-> "json", value |-> payload]

\* save_log(root, log_entries, dry_run) at clock second t: the filesystem
\* after it and the path returned
save_log(fs, root, log_entries, dry_run, t) ==
    LET log_dir == get_log_dir(root)
        made == mkdir_parents(fs, log_dir)
        log_file == JoinPath(log_dir, LogFileName(t, dry_run))
        written == write_text(made.fs, log_file,
                              JsonText(LogPayload(t, log_entries, dry_run)))
    IN  [fs |-> written.fs, path |-> log_file, ok |-> made.ok /\ written.ok]

\* load_log(log_path): read_text raises on a missing file, json.loads on a
\* content that is no JSON document
load_log(fs, path) ==
    IF ~IsFile(fs, path) THEN [ok |-> FALSE, data |-> <<>>]
    ELSE IF fs.files[path].kind # "json" THEN [ok |-> FALSE, data |-> <<>>]
    ELSE [ok |-> TRUE, data |-> fs.files[path].value]

\* a rollback that does not look at the dry_run field
IsDryRunLog_ignored(data) == FALSE

\* data.get("dry_run") is truthy: the flag is a JSON boolean
IsDryRunLog(data) == "dry_run" \in DOMAIN data /\ data.dry_run

\* a rollback that replays the log front to back
ReplayOrder_forward(n) == [k \in 1..n |-> k]

\* the order in which rollback visits the indices of n logged actions:
\* reversed(actions)
ReplayOrder(n) == [k \in 1..n |-> n - k + 1]

\* errors.append({"action": action, "error": msg})
RollbackError(st, action, msg) ==
    [st EXCEPT !.errors = Append(@, [action |-> action, error |-> msg])]

\* a rollback that passes over a missing file without a word
MissingSource_silent(st, action) == st

\* the else branch of src_path.exists(): the file to put back is gone
MissingSource(st, action) == RollbackError(st, action, "File not found")

\* one iteration of the loop of rollback on st = [fs, reversed, errors, calls]
RollbackStepOn(st, action, denied) ==
    LET src_path == PathOf(action.to)
        dst_path == PathOf(action.from)
        outcome(r, calls) ==
            IF r.ok
            THEN [fs |-> r.fs, reversed |-> st.reversed + 1,
                  errors |-> st.errors, calls |-> st.calls + calls]
            ELSE [fs |-> r.fs, reversed |-> st.reversed,
                  errors |-> Append(st.errors,
                                    [action |-> action, error |-> ErrorText(r.err)]),
                  calls |-> st.calls + calls]
        made == mkdir_parents(st.fs, Parent(dst_path))
    IN  IF ~("to" \in DOMAIN action /\ action.to # <<>>)
           \/ ~("from" \in DOMAIN action /\ action.from # <<>>)
        THEN RollbackError(st, action, "Missing from/to paths")
        ELSE IF "type" \in DOMAIN action /\ action.type = "rename"
        THEN (IF PathExists(st.fs, src_path)
              THEN outcome(IF denied THEN Raised(st.fs, "EACCES")
                           ELSE os_rename(st.fs, src_path, dst_path), 1)
              ELSE MissingSource(st, action))
        ELSE IF "type" \in DOMAIN action /\ action.type = "move"
        THEN (IF PathExists(st.fs, src_path)
              THEN (IF ~made.ok THEN outcome(made, 1)
                    ELSE outcome(IF denied THEN Raised(made.fs, "EACCES")
                                 ELSE shutil_move(made.fs, src_path, dst_path), 2))
              ELSE MissingSource(st, action))
        ELSE st

\* the set dirs_to_check of _cleanup_empty_dirs: the parents of the move
\* destinations; action["to"] raises KeyError on an entry without "to"
DirsToCheck(actions) ==
    [ ok |-> \A k \in DOMAIN actions :
                 ("type" \in DOMAIN actions[k] /\ actions[k].type = "move")
                     => "to" \in DOMAIN actions[k],
      dirs |-> { Parent(PathOf(actions[k].to)) :
                 k \in {j \in DOMAIN actions :
                           /\ "type" \in DOMAIN actions[j]
                           /\ actions[j].type = "move"
                           /\ "to" \in DOMAIN actions[j]} } ]

\* the body of the loop of _cleanup_empty_dirs for the directory d
CleanupDir(fs, d) ==
    IF IsDir(fs, d) /\ ~HasEntries(fs, d) THEN os_rmdir(fs, d).fs ELSE fs

(***************************************************************************)
(* file_organizer.py: the single-file edition of the organizer.  Its       *)
(* _extract_existing_date, _extract_existing_version and _clean_stem are   *)
(* the ones of renamer.py; its planner names files                         *)
(* mmddyyyy_company_descriptor and files them under brand and subcategory  *)
(* folders.  The names carry the prefix fo_ where renamer.py and           *)
(* organizer.py have a function of the same name.                          *)
(***************************************************************************)
fo_NAMING_RULES == [NAMING_RULES EXCEPT !.max_filename_length = 80]

Cat_Audio == <<"0","3","_","A","u","d","i","o">>

Cat_Video == <<"0","4","_","V","i","d","e","o">>

Cat_Archives == <<"0","5","_","A","r","c","h","i","v","e","s">>

Cat_Executables == <<"0","7","_","E","x","e","c","u","t","a","b","l","e","s">>

BRAND_FOLDERS ==
    <<
      [ folder_name |-> <<"S","i","l","v","a"," ","O","p","e","r","a","t","i","o","n","s">>,
        keywords |-> <<
          <<"s","i","l","v","a"," ","o","p","e","r","a","t","i","o","n","s"," ","l","l","c">>,
          <<"s","i","l","v","a"," ","o","p","e","r","a","t","i","o","n","s">>,
          <<"s","i","l","v","a"," ","o","p","s">> >> ],
      [ folder_name |-> <<"D","e","l","t","a"," ","A","i","r","l","i","n","e","s">>,
        keywords |-> <<
          <<"d","e","l","t","a"," ","a","i","r","l","i","n","e","s">>,
          <<"d","e","l","t","a"," ","a","i","r"," ","l","i","n","e","s">>,
          <<"d","e","l","t","a"," ","s","k","y","m","i","l","e","s">>,
          <<"d","e","l","t","a"," ","s","k","y"," ","m","i","l","e","s">> >> ],
      [ folder_name |-> <<"U","b","e","r">>,
        keywords |-> <<
          <<"u","b","e","r"," ","t","e","c","h","n","o","l","o","g","i","e","s">>,
          <<"u","b","e","r"," ","e","a","t","s">>, <<"u","b","e","r"," ","t","r","i","p">>,
          <<"u","b","e","r"," ","r","e","c","e","i","p","t">>, <<"u","b","e","r",".","c","o","m">>,
          <<"u","b","e","r">> >> ],
      [ folder_name |-> <<"A","m","a","n">>,
        keywords |-> <<
          <<"a","m","a","n"," ","r","e","s","o","r","t","s">>,
          <<"a","m","a","n"," ","h","o","t","e","l","s">>,
          <<"a","m","a","n","r","e","s","o","r","t","s">>, <<"a","m","a","n",".","c","o","m">>,
          <<"a","m","a","n">> >> ],
      [ folder_name |-> <<"M","o","n","t","a","g","e">>,
        keywords |-> <<
          <<"m","o","n","t","a","g","e"," ","h","o","t","e","l","s">>,
          <<"m","o","n","t","a","g","e"," ","r","e","s","o","r","t","s">>,
          <<"m","o","n","t","a","g","e"," ","i","n","t","e","r","n","a","t","i","o","n","a","l">>,
          <<"m","o","n","t","a","g","e","h","o","t","e","l","s">>, <<"m","o","n","t","a","g","e">> >> ],
      [ folder_name |-> <<"S","p","r","i","n","g","H","i","l","l"," ","S","u","i","t","e","s">>,
        keywords |-> <<
          <<"s","p","r","i","n","g","h","i","l","l"," ","s","u","i","t","e","s"," ","b","y"," ","m","a","r","r","i","o","t","t">>,
          <<"s","p","r","i","n","g","h","i","l","l"," ","s","u","i","t","e","s">> >> ],
      [ folder_name |-> <<"R","e","s","i","d","e","n","c","e"," ","I","n","n">>,
        keywords |-> <<
          <<"r","e","s","i","d","e","n","c","e"," ","i","n","n"," ","b","y"," ","m","a","r","r","i","o","t","t">>,
          <<"r","e","s","i","d","e","n","c","e"," ","i","n","n">> >> ],
      [ folder_name |-> <<"C","o","u","r","t","y","a","r","d">>,
        keywords |-> <<
          <<"c","o","u","r","t","y","a","r","d"," ","b","y"," ","m","a","r","r","i","o","t","t">>,
          <<"c","o","u","r","t","y","a","r","d"," ","m","a","r","r","i","o","t","t">>,
          <<"c","o","u","r","t","y","a","r","d">> >> ],
      [ folder_name |-> <<"M","a","r","r","i","o","t","t">>,
        keywords |-> <<
          <<"m","a","r","r","i","o","t","t"," ","i","n","t","e","r","n","a","t","i","o","n","a","l">>,
          <<"m","a","r","r","i","o","t","t"," ","b","o","n","v","o","y">>,
          <<"m","a","r","r","i","o","t","t",".","c","o","m">>, <<"m","a","r","r","i","o","t","t">> >> ],
      [ folder_name |-> <<"H","e","r","t","z">>,
        keywords |-> <<
          <<"h","e","r","t","z"," ","c","o","r","p","o","r","a","t","i","o","n">>,
          <<"h","e","r","t","z"," ","r","e","n","t","a","l">>,
          <<"h","e","r","t","z",".","c","o","m">>, <<"h","e","r","t","z">> >> ],
      [ folder_name |-> <<"P","e","r","s","o","n","a","l"," ","(","S","i","l","v","a",")">>,
        keywords |-> <<
          <<"s","i","l","v","a">> >> ]
    >>

DOCUMENT_SUBCATEGORIES ==
    <<
      [ subfolder |-> <<"T","a","x">>,
        keywords |-> <<
          <<"w","2">>, <<"w","-","2">>, <<"1","0","9","5">>, <<"1","0","9","9">>, <<"k","-","1">>,
          <<"k","1">>, <<"t","a","x"," ","r","e","t","u","r","n">>,
          <<"t","a","x","r","e","t","u","r","n">>, <<"t","a","x","_","r","e","t","u","r","n">>,
          <<"i","r","s">>, <<"1","0","4","0">>, <<"w","4">>, <<"w","-","4">>, <<"1","0","9","8">> >> ],
      [ subfolder |-> <<"C","o","n","t","r","a","c","t","s">>,
        keywords |-> <<
          <<"c","o","n","t","r","a","c","t">>, <<"a","g","r","e","e","m","e","n","t">>,
          <<"s","c","o","p","e"," ","o","f"," ","w","o","r","k">>, <<"s","o","w">>,
          <<"e","n","g","a","g","e","m","e","n","t"," ","l","e","t","t","e","r">>, <<"m","s","a">>,
          <<"n","d","a">>, <<"c","o","n","f","i","d","e","n","t","i","a","l","i","t","y">> >> ],
      [ subfolder |-> <<"L","e","a","s","e","s">>,
        keywords |-> <<
          <<"l","e","a","s","e">>, <<"s","u","b","l","e","a","s","e">>, <<"t","e","n","a","n","t">>,
          <<"l","a","n","d","l","o","r","d">>, <<"r","e","n","t"," ","r","o","l","l">>,
          <<"r","e","n","t","a","l">>, <<"o","c","c","u","p","a","n","c","y">> >> ],
      [ subfolder |-> <<"F","i","n","a","n","c","i","a","l">>,
        keywords |-> <<
          <<"f","i","n","a","n","c","i","a","l">>, <<"f","i","n","a","n","c","i","a","l","s">>,
          <<"l","e","d","g","e","r">>, <<"a","g","i","n","g">>, <<"i","n","v","o","i","c","e">>,
          <<"r","e","c","e","i","p","t">>, <<"p","a","y","m","e","n","t">>,
          <<"b","u","d","g","e","t">>, <<"p","&","l">>, <<"p","r","o","f","i","t">>,
          <<"l","o","s","s">>, <<"b","a","l","a","n","c","e"," ","s","h","e","e","t">>,
          <<"i","n","c","o","m","e"," ","s","t","a","t","e","m","e","n","t">>,
          <<"b","a","n","k"," ","s","t","a","t","e","m","e","n","t">>,
          <<"s","t","a","t","e","m","e","n","t"," ","o","f">>,
          <<"a","c","c","o","u","n","t","s"," ","p","a","y","a","b","l","e">>,
          <<"a","c","c","o","u","n","t","s"," ","r","e","c","e","i","v","a","b","l","e">>,
          <<"j","o","u","r","n","a","l"," ","e","n","t","r","y">> >> ],
      [ subfolder |-> <<"I","n","v","e","s","t","m","e","n","t">>,
        keywords |-> <<
          <<"i","n","v","e","s","t","m","e","n","t">>, <<"i","n","v","e","s","t","o","r">>,
          <<"k","-","1">>, <<"k","1">>, <<"c","a","p","i","t","a","l"," ","c","a","l","l">>,
          <<"d","i","s","t","r","i","b","u","t","i","o","n">>,
          <<"o","f","f","e","r","i","n","g"," ","m","e","m","o">>, <<"p","p","m">>,
          <<"s","u","b","s","c","r","i","p","t","i","o","n">> >> ],
      [ subfolder |-> <<"I","n","s","u","r","a","n","c","e">>,
        keywords |-> <<
          <<"i","n","s","u","r","a","n","c","e">>, <<"p","o","l","i","c","y">>,
          <<"c","e","r","t","i","f","i","c","a","t","e"," ","o","f">>, <<"c","o","i">>,
          <<"c","o","v","e","r","a","g","e">>, <<"c","l","a","i","m">>,
          <<"l","i","a","b","i","l","i","t","y">> >> ],
      [ subfolder |-> <<"L","e","g","a","l">>,
        keywords |-> <<
          <<"a","m","e","n","d","m","e","n","t">>, <<"a","d","d","e","n","d","u","m">>,
          <<"r","e","s","o","l","u","t","i","o","n">>,
          <<"a","r","t","i","c","l","e","s"," ","o","f">>,
          <<"o","p","e","r","a","t","i","n","g"," ","a","g","r","e","e","m","e","n","t">>,
          <<"b","y","l","a","w","s">>, <<"l","i","t","i","g","a","t","i","o","n">>,
          <<"c","o","m","p","l","a","i","n","t">>, <<"s","e","t","t","l","e","m","e","n","t">>,
          <<"n","o","t","i","c","e"," ","o","f">>, <<"l","i","e","n">>,
          <<"t","i","t","l","e"," ","r","e","p","o","r","t">>, <<"e","s","c","r","o","w">> >> ],
      [ subfolder |-> <<"C","o","r","r","e","s","p","o","n","d","e","n","c","e">>,
        keywords |-> <<
          <<"l","e","t","t","e","r">>, <<"c","o","m","m","u","n","i","c","a","t","i","o","n">>,
          <<"m","e","m","o">>, <<"n","o","t","i","c","e">>,
          <<"a","n","n","o","u","n","c","e","m","e","n","t">> >> ],
      [ subfolder |-> <<"R","e","p","o","r","t","s">>,
        keywords |-> <<
          <<"r","e","p","o","r","t">>, <<"s","u","m","m","a","r","y">>,
          <<"a","n","a","l","y","s","i","s">>, <<"a","p","p","r","a","i","s","a","l">>,
          <<"i","n","s","p","e","c","t","i","o","n">>, <<"a","s","s","e","s","s","m","e","n","t">>,
          <<"r","e","v","i","e","w">>, <<"a","u","d","i","t">> >> ],
      [ subfolder |-> <<"P","r","e","s","e","n","t","a","t","i","o","n","s">>,
        keywords |-> <<
          <<"p","r","e","s","e","n","t","a","t","i","o","n">>, <<"p","i","t","c","h">>,
          <<"d","e","c","k">>, <<"p","r","o","p","o","s","a","l">> >> ],
      [ subfolder |-> <<"S","p","r","e","a","d","s","h","e","e","t","s">>,
        keywords |-> <<
          <<".","x","l","s","x">>, <<".","x","l","s">>, <<".","c","s","v">> >> ]
    >>

IMAGE_SUBCATEGORIES ==
    <<
      [ subfolder |-> <<"S","c","r","e","e","n","s","h","o","t","s">>,
        keywords |-> <<
          <<"s","c","r","e","e","n","s","h","o","t">>,
          <<"s","c","r","e","e","n"," ","s","h","o","t">>, <<"s","n","i","p">>,
          <<"c","a","p","t","u","r","e">> >> ],
      [ subfolder |-> <<"P","h","o","t","o","s">>,
        keywords |-> <<
          <<"p","h","o","t","o">>, <<"i","m","g","_">>, <<"d","s","c","_">>, <<"d","s","c","n">>,
          <<"p","i","c","_">>, <<"c","a","m","e","r","a">> >> ]
    >>

ARCHIVE_SUBCATEGORIES ==
    <<
      [ subfolder |-> <<"B","a","c","k","u","p","s">>,
        keywords |-> <<
          <<"b","a","c","k","u","p">>, <<"b","a","k">>, <<"a","r","c","h","i","v","e">> >> ]
    >>

\* \b of the re module between the characters k - 1 and k of s
Boundary(s, k) == IsWordChar(At(s, k - 1)) # IsWordChar(At(s, k))

\* r'\b' + re.escape(w) + r'\b' matches s at k
WordAt(s, k, w) ==
    /\ k + Len(w) - 1 <= Len(s)
    /\ SubSeq(s, k, k + Len(w) - 1) = w
    /\ Boundary(s, k)
    /\ Boundary(s, k + Len(w))

\* re.search(r'\b' + re.escape(w) + r'\b', s)
HasWord(s, w) == \E k \in DOMAIN s : WordAt(s, k, w)

\* the test _detect_brand makes for one keyword
BrandKeywordHit(kw, combined, normalized) ==
    IF " " \in Range(kw) \/ "." \in Range(kw)
    THEN Contains(combined, kw) \/ Contains(normalized, kw)
    ELSE HasWord(normalized, kw)

\* the rows of a keyword table that the test hit finds for one of their keywords
BrandHits(combined, normalized) ==
    {b \in DOMAIN BRAND_FOLDERS :
        \E k \in DOMAIN BRAND_FOLDERS[b].keywords :
            BrandKeywordHit(BRAND_FOLDERS[b].keywords[k], combined, normalized)}

\* _auto_detect_entity(text_content): None for a text of fewer than 20
\* characters.  The entity patterns for longer texts are not modelled: the
\* descriptors of this model carry no such text.
_auto_detect_entity(text_content) == <<>>

FirstBrand(hits, text_content) ==
    IF hits # {} THEN BRAND_FOLDERS[MinOf(hits)].folder_name
    ELSE _auto_detect_entity(text_content)

BrandIn(combined, text_content) ==
    FirstBrand(BrandHits(combined, ReplaceChar(ReplaceChar(combined, "_", <<" ">>),
                                               "-", <<" ">>)),
               text_content)

\* _detect_brand(filename, text_content): the folder name, <<>> for None
_detect_brand(filename, text_content) ==
    BrandIn(Lower(filename \o <<" ">> \o text_content), text_content)

\* the test _detect_subcategory makes for one keyword of the document table
DocumentKeywordHit(kw, name_lower, ext_lower) ==
    IF kw[1] = "." THEN ext_lower = kw ELSE Contains(name_lower, kw)

DocumentHits(name_lower, ext_lower) ==
    {b \in DOMAIN DOCUMENT_SUBCATEGORIES :
        \E k \in DOMAIN DOCUMENT_SUBCATEGORIES[b].keywords :
            DocumentKeywordHit(DOCUMENT_SUBCATEGORIES[b].keywords[k], name_lower, ext_lower)}

NameHits(table, name_lower) ==
    {b \in DOMAIN table :
        \E k \in DOMAIN table[b].keywords : Contains(name_lower, table[b].keywords[k])}

FirstSubfolder(table, hits, default) ==
    IF hits # {} THEN table[MinOf(hits)].subfolder ELSE default

SubcategoryOf(name_lower, ext_lower, category) ==
    CASE category = Cat_Documents ->
             FirstSubfolder(DOCUMENT_SUBCATEGORIES, DocumentHits(name_lower, ext_lower),
                            <<"G","e","n","e","r","a","l">>)
      [] category = Cat_Images ->
             FirstSubfolder(IMAGE_SUBCATEGORIES, NameHits(IMAGE_SUBCATEGORIES, name_lower),
                            <<"P","h","o","t","o","s">>)
      [] category = Cat_Audio -> <<"M","u","s","i","c">>
      [] category = Cat_Video -> <<"C","l","i","p","s">>
      [] category = Cat_Archives ->
             FirstSubfolder(ARCHIVE_SUBCATEGORIES, NameHits(ARCHIVE_SUBCATEGORIES, name_lower),
                            <<"D","o","w","n","l","o","a","d","s">>)
      [] category = Cat_Executables -> <<"I","n","s","t","a","l","l","e","r","s">>
      [] OTHER -> <<>>

\* _detect_subcategory(filename, extension, category): <<>> for None
_detect_subcategory(filename, extension, category) ==
    SubcategoryOf(Lower(filename), Lower(extension), category)

\* the clock counts TicksPerSecond ticks a second from 1970-01-01T00:00:00Z
TicksPerDay == 86400 * TicksPerSecond

\* datetime.fromtimestamp(t, tz=timezone.utc).strftime("%Y%m%d") for a tick t
\* of January 1970
StrftimeDate(t) == <<"1","9","7","0","0","1">> \o Format02d((t \div TicksPerDay) + 1)

\* _get_file_date(filepath) at tick t: the modification date of the file, the
\* date of the clock when os.path.getmtime raises OSError
_get_file_date(f, filepath, t) ==
    IF IsFile(f, filepath) THEN StrftimeDate(f.files[filepath].mtime)
    ELSE StrftimeDate(t)

_to_mmddyyyy(yyyymmdd) ==
    IF Len(yyyymmdd) = 8
    THEN SubSeq(yyyymmdd, 5, 6) \o SubSeq(yyyymmdd, 7, 8) \o SubSeq(yyyymmdd, 1, 4)
    ELSE IF Len(yyyymmdd) = 6
    THEN SubSeq(yyyymmdd, 5, 6) \o SubSeq(yyyymmdd, 1, 4)
    ELSE yyyymmdd

\* company of normalize_filename, <<>> without a brand
Company(brand, rules) ==
    LowerIf(RemoveChars(ReplaceChar(brand, " ", <<"-">>), {"(", ")"}), rules)

RECURSIVE SplitWords(_)
\* str.split()
SplitWords(s) ==
    IF s = <<>> THEN <<>>
    ELSE IF Head(s) = " " THEN SplitWords(Tail(s))
    ELSE IF " " \notin Range(s) THEN <<s>>
    ELSE <<SubSeq(s, 1, IndexIn(s, " ") - 1)>>
             \o SplitWords(SubSeq(s, IndexIn(s, " ") + 1, Len(s)))

\* brand_words of normalize_filename
BrandWords(brand) ==
    SplitWords(RemoveChars(ReplaceChar(Lower(brand), "-", <<" ">>), {"(", ")"}))

RECURSIVE RemoveWordFrom(_, _, _)
\* re.sub(r'\b' + re.escape(bw) + r'\b-?', '', s) from position k on
RemoveWordFrom(s, k, bw) ==
    IF k > Len(s) THEN <<>>
    ELSE IF WordAt(s, k, bw)
    THEN RemoveWordFrom(s, k + Len(bw) + (IF At(s, k + Len(bw)) = "-" THEN 1 ELSE 0), bw)
    ELSE <<s[k]>> \o RemoveWordFrom(s, k + 1, bw)

RECURSIVE RemoveWords(_, _)
RemoveWords(descriptor, brand_words) ==
    IF brand_words = <<>> THEN descriptor
    ELSE RemoveWords(RemoveWordFrom(descriptor, 1, Head(brand_words)), Tail(brand_words))

\* the descriptor without the words of the brand
WithoutBrand(descriptor, brand) ==
    IF brand = <<>> THEN descriptor
    ELSE Strip(CollapseFrom(RemoveWords(descriptor, BrandWords(brand)), 1, <<"-">>), {"-"})

\* date_str of normalize_filename: the date of the name, else the date of the
\* file when a filepath is passed, converted to MMDDYYYY
DateOrMtime(date_in_name, file_date) ==
    _to_mmddyyyy(IF date_in_name = <<>> THEN file_date ELSE date_in_name)

\* stem of normalize_filename, truncated and made safe
fo_Stem(parts, date_str, rules) ==
    NonEmptyStem(ReservedSafe(Truncate(Join(<<"_">>, parts), rules.max_filename_length),
                              <<"_">>),
                 date_str)

fo_Assemble(descriptor, date_str, company, version_str, extension, rules) ==
    fo_Stem(Part(date_str) \o Part(company) \o Part(descriptor) \o Part(version_str),
            date_str, rules)
    \o LowerIf(extension, rules)

fo_NormalizeVersioned(date_in_name, v, extension, rules, file_date, brand) ==
    fo_Assemble(WithoutBrand(Descriptor(v.cleaned, rules), brand),
                DateOrMtime(date_in_name, file_date),
                Company(brand, rules), v.version, extension, rules)

fo_NormalizeDated(d, extension, rules, file_date, brand) ==
    fo_NormalizeVersioned(d.date, _extract_existing_version(d.cleaned), extension, rules,
                          file_date, brand)

\* normalize_filename(name, extension, rules, filepath, category, brand) of
\* file_organizer.py; file_date is _get_file_date(filepath), <<>> when no
\* filepath is passed, and brand is <<>> for None
fo_normalize_filename(name, extension, rules, file_date, brand) ==
    fo_NormalizeDated(_extract_existing_date(name), extension, rules, file_date, brand)

\* FileEntry.from_path(filepath, category) of file_organizer.py without
\* deep_scan
fo_FileEntry(filepath, categories) ==
    [ path |-> filepath,
      name |-> BaseName(filepath),
      stem |-> PathStem(BaseName(filepath)),
      extension |-> Lower(PathSuffix(BaseName(filepath))),
      category |-> CategoryOf(categories, Lower(PathSuffix(BaseName(filepath)))),
      parent |-> Parent(filepath),
      real_extension |-> <<>>,
      extension_mismatch |-> FALSE,
      suggested_name |-> <<>>,
      text_content |-> <<>> ]

RECURSIVE DedupCounter02(_, _, _, _)
\* the loop of _deduplicate: the first candidate f"{stem}_{counter:02d}{ext}"
\* whose lowercase form is unused
DedupCounter02(stem, ext, existing, counter) ==
    IF Lower(stem \o <<"_">> \o Format02d(counter) \o ext) \notin existing
    THEN stem \o <<"_">> \o Format02d(counter) \o ext
    ELSE DedupCounter02(stem, ext, existing, counter + 1)

fo__deduplicate(name, existing) ==
    IF Lower(name) \notin existing THEN name
    ELSE DedupCounter02(PathStem(name), PathSuffix(name), existing, 1)

\* re.sub(r'^\d+_', '', category)
CleanCat(category) ==
    IF DigitRunEnd(category, 1) > 1 /\ At(category, DigitRunEnd(category, 1)) = "_"
    THEN SubSeq(category, DigitRunEnd(category, 1) + 1, Len(category))
    ELSE category

\* dest_dir of one entry
DestDir(entry, target_root, organize_into_folders, brand, subcategory) ==
    IF ~organize_into_folders THEN entry.parent
    ELSE JoinPath(JoinPath(target_root, IF brand # <<>> THEN brand ELSE entry.category),
                  IF subcategory # <<>> THEN subcategory
                  ELSE IF brand # <<>> THEN CleanCat(entry.category) ELSE <<>>)

\* name_stem and extension of one entry
NameStem(entry) == IF entry.suggested_name # <<>> THEN entry.suggested_name ELSE entry.stem

FixedExtension(entry) ==
    IF entry.extension_mismatch /\ entry.real_extension # <<>>
    THEN entry.real_extension ELSE entry.extension

fo_PlanBranded(acc, entry, dest_dir, new_name, organize_into_folders) ==
    PlanNamed(acc, entry, dest_dir,
              fo__deduplicate(new_name, UsedIn(acc.used_names, dest_dir)),
              organize_into_folders)

fo_PlanWithBrand(acc, entry, target_root, rename_rules, organize_into_folders, brand, f, t) ==
    fo_PlanBranded(acc, entry,
                   DestDir(entry, target_root, organize_into_folders, brand,
                           _detect_subcategory(entry.name, entry.extension, entry.category)),
                   fo_normalize_filename(NameStem(entry), FixedExtension(entry), rename_rules,
                                         _get_file_date(f, entry.path, t), brand),
                   organize_into_folders)

\* one iteration of the loop of plan_organization, run on the filesystem f at
\* tick t
fo_PlanEntry(acc, entry, target_root, rename_rules, organize_into_folders, f, t) ==
    fo_PlanWithBrand(acc, entry, target_root, rename_rules, organize_into_folders,
                     _detect_brand(entry.name, entry.text_content), f, t)

RECURSIVE fo_PlanLoop(_, _, _, _, _, _, _)
fo_PlanLoop(acc, entries, target_root, rename_rules, organize_into_folders, f, t) ==
    IF entries = <<>> THEN acc
    ELSE fo_PlanLoop(fo_PlanEntry(acc, Head(entries), target_root, rename_rules,
                                  organize_into_folders, f, t),
                     Tail(entries), target_root, rename_rules, organize_into_folders, f, t)

\* plan_organization(files, target_root, rename_rules, organize_into_folders)
\* of file_organizer.py, called on the filesystem f at tick t
fo_plan_organization(entries, target_root, rename_rules, organize_into_folders, f, t) ==
    fo_PlanLoop([used_names |-> <<>>, plan |-> EmptyPlan], entries, target_root,
                rename_rules, organize_into_folders, f, t).plan

(***************************************************************************)
(* content_detector.py.  A file's content is its bytes, numbers 0..255,    *)
(* and, for the zipfile module, the archive the bytes hold.  A str is the  *)
(* sequence of its characters.                                             *)
(***************************************************************************)
\* the characters of the codes 32 to 126; "QUOTE" stands for the double quote,
\* "BACKSLASH" for the backslash and "BACKTICK" for the grave accent
AsciiChars ==
    << " ", "!", "QUOTE", "#", "$", "%", "&", "'", "(", ")", "*", "+", ",", "-", ".", "/",
       "0", "1", "2", "3", "4", "5", "6", "7", "8", "9", ":", ";", "<", "=", ">", "?",
       "@", "A", "B", "C", "D", "E", "F", "G", "H", "I", "J", "K", "L", "M", "N", "O",
       "P", "Q", "R", "S", "T", "U", "V", "W", "X", "Y", "Z", "[", "BACKSLASH", "]", "^", "_",
       "BACKTICK", "a", "b", "c", "d", "e", "f", "g", "h", "i", "j", "k", "l", "m", "n", "o",
       "p", "q", "r", "s", "t", "u", "v", "w", "x", "y", "z", "{", "|", "}", "~" >>

\* ord(c) of a character of the codes 32 to 126
Ord(c) == IndexIn(AsciiChars, c) + 31

\* text.encode("ascii"), the bytes literal b"text"
Encode(text) == [k \in DOMAIN text |-> Ord(text[k])]

\* data[a:b] of bytes
Bytes(data, a, b) == SubSeq(data, a + 1, IF b < Len(data) THEN b ELSE Len(data))

FileSignature(magic, offset, mime, category, extension, description) ==
    [ magic |-> magic, offset |-> offset, mime |-> mime, category |-> category,
      extension |-> extension, description |-> description ]

\* None where a FileSignature is expected
NoSignature == FileSignature(<<>>, 0, <<>>, <<>>, <<>>, "")

SIGNATURES ==
    <<
      FileSignature(<<137,80,78,71,13,10,26,10>>, 0,
                <<"i","m","a","g","e","/","p","n","g">>,
                <<"0","2","_","I","m","a","g","e","s">>, <<".","p","n","g">>,
                "PNG image"),
      FileSignature(<<255,216,255,224>>, 0,
                <<"i","m","a","g","e","/","j","p","e","g">>,
                <<"0","2","_","I","m","a","g","e","s">>, <<".","j","p","g">>,
                "JPEG image (JFIF)"),
      FileSignature(<<255,216,255,225>>, 0,
                <<"i","m","a","g","e","/","j","p","e","g">>,
                <<"0","2","_","I","m","a","g","e","s">>, <<".","j","p","g">>,
                "JPEG image (EXIF)"),
      FileSignature(<<255,216,255,219>>, 0,
                <<"i","m","a","g","e","/","j","p","e","g">>,
                <<"0","2","_","I","m","a","g","e","s">>, <<".","j","p","g">>,
                "JPEG image"),
      FileSignature(<<255,216,255,238>>, 0,
                <<"i","m","a","g","e","/","j","p","e","g">>,
                <<"0","2","_","I","m","a","g","e","s">>, <<".","j","p","g">>,
                "JPEG image (Adobe)"),
      FileSignature(<<255,216,255>>, 0,
                <<"i","m","a","g","e","/","j","p","e","g">>,
                <<"0","2","_","I","m","a","g","e","s">>, <<".","j","p","g">>,
                "JPEG image"),
      FileSignature(<<71,73,70,56,57,97>>, 0,
                <<"i","m","a","g","e","/","g","i","f">>,
                <<"0","2","_","I","m","a","g","e","s">>, <<".","g","i","f">>,
                "GIF image (89a)"),
      FileSignature(<<71,73,70,56,55,97>>, 0,
                <<"i","m","a","g","e","/","g","i","f">>,
                <<"0","2","_","I","m","a","g","e","s">>, <<".","g","i","f">>,
                "GIF image (87a)"),
      FileSignature(<<82,73,70,70>>, 0,
                <<"i","m","a","g","e","/","w","e","b","p">>,
                <<"0","2","_","I","m","a","g","e","s">>, <<".","w","e","b","p">>,
                "WebP image"),
      FileSignature(<<66,77>>, 0,
                <<"i","m","a","g","e","/","b","m","p">>,
                <<"0","2","_","I","m","a","g","e","s">>, <<".","b","m","p">>,
                "BMP image"),
      FileSignature(<<0,0,1,0>>, 0,
                <<"i","m","a","g","e","/","x","-","i","c","o","n">>,
                <<"0","2","_","I","m","a","g","e","s">>, <<".","i","c","o">>,
                "ICO icon"),
      FileSignature(<<73,73,42,0>>, 0,
                <<"i","m","a","g","e","/","t","i","f","f">>,
                <<"0","2","_","I","m","a","g","e","s">>, <<".","t","i","f","f">>,
                "TIFF image (little-endian)"),
      FileSignature(<<77,77,0,42>>, 0,
                <<"i","m","a","g","e","/","t","i","f","f">>,
                <<"0","2","_","I","m","a","g","e","s">>, <<".","t","i","f","f">>,
                "TIFF image (big-endian)"),
      FileSignature(<<37,80,68,70>>, 0,
                <<"a","p","p","l","i","c","a","t","i","o","n","/","p","d","f">>,
                <<"0","1","_","D","o","c","u","m","e","n","t","s">>, <<".","p","d","f">>,
                "PDF document"),
      FileSignature(<<208,207,17,224,161,177,26,225>>, 0,
                <<"a","p","p","l","i","c","a","t","i","o","n","/","m","s","o","f","f","i","c","e">>,
                <<"0","1","_","D","o","c","u","m","e","n","t","s">>, <<".","d","o","c">>,
                "Microsoft Office (legacy)"),
      FileSignature(<<73,68,51>>, 0,
                <<"a","u","d","i","o","/","m","p","e","g">>,
                <<"0","3","_","A","u","d","i","o">>, <<".","m","p","3">>,
                "MP3 audio (ID3)"),
      FileSignature(<<255,251>>, 0,
                <<"a","u","d","i","o","/","m","p","e","g">>,
                <<"0","3","_","A","u","d","i","o">>, <<".","m","p","3">>,
                "MP3 audio"),
      FileSignature(<<255,243>>, 0,
                <<"a","u","d","i","o","/","m","p","e","g">>,
                <<"0","3","_","A","u","d","i","o">>, <<".","m","p","3">>,
                "MP3 audio"),
      FileSignature(<<255,242>>, 0,
                <<"a","u","d","i","o","/","m","p","e","g">>,
                <<"0","3","_","A","u","d","i","o">>, <<".","m","p","3">>,
                "MP3 audio"),
      FileSignature(<<102,76,97,67>>, 0,
                <<"a","u","d","i","o","/","f","l","a","c">>,
                <<"0","3","_","A","u","d","i","o">>, <<".","f","l","a","c">>,
                "FLAC audio"),
      FileSignature(<<79,103,103,83>>, 0,
                <<"a","u","d","i","o","/","o","g","g">>,
                <<"0","3","_","A","u","d","i","o">>, <<".","o","g","g">>,
                "OGG audio"),
      FileSignature(<<26,69,223,163>>, 0,
                <<"v","i","d","e","o","/","w","e","b","m">>,
                <<"0","4","_","V","i","d","e","o">>, <<".","w","e","b","m">>,
                "WebM/MKV video"),
      FileSignature(<<0,0,0,28,102,116,121,112>>, 0,
                <<"v","i","d","e","o","/","m","p","4">>,
                <<"0","4","_","V","i","d","e","o">>, <<".","m","p","4">>,
                "MP4 video"),
      FileSignature(<<0,0,0,32,102,116,121,112>>, 0,
                <<"v","i","d","e","o","/","m","p","4">>,
                <<"0","4","_","V","i","d","e","o">>, <<".","m","p","4">>,
                "MP4 video"),
      FileSignature(<<0,0,0,24,102,116,121,112>>, 0,
                <<"v","i","d","e","o","/","m","p","4">>,
                <<"0","4","_","V","i","d","e","o">>, <<".","m","p","4">>,
                "MP4 video"),
      FileSignature(<<80,75,3,4>>, 0,
                <<"a","p","p","l","i","c","a","t","i","o","n","/","z","i","p">>,
                <<"0","5","_","A","r","c","h","i","v","e","s">>, <<".","z","i","p">>,
                "ZIP archive"),
      FileSignature(<<82,97,114,33,26,7>>, 0,
                <<"a","p","p","l","i","c","a","t","i","o","n","/","x","-","r","a","r">>,
                <<"0","5","_","A","r","c","h","i","v","e","s">>, <<".","r","a","r">>,
                "RAR archive"),
      FileSignature(<<55,122,188,175,39,28>>, 0,
                <<"a","p","p","l","i","c","a","t","i","o","n","/","x","-","7","z">>,
                <<"0","5","_","A","r","c","h","i","v","e","s">>, <<".","7","z">>,
                "7-Zip archive"),
      FileSignature(<<31,139>>, 0,
                <<"a","p","p","l","i","c","a","t","i","o","n","/","g","z","i","p">>,
                <<"0","5","_","A","r","c","h","i","v","e","s">>, <<".","g","z">>,
                "Gzip archive"),
      FileSignature(<<66,90,104>>, 0,
                <<"a","p","p","l","i","c","a","t","i","o","n","/","x","-","b","z","i","p","2">>,
                <<"0","5","_","A","r","c","h","i","v","e","s">>, <<".","b","z","2">>,
                "Bzip2 archive"),
      FileSignature(<<253,55,122,88,90,0>>, 0,
                <<"a","p","p","l","i","c","a","t","i","o","n","/","x","-","x","z">>,
                <<"0","5","_","A","r","c","h","i","v","e","s">>, <<".","x","z">>,
                "XZ archive"),
      FileSignature(<<77,90>>, 0,
                <<"a","p","p","l","i","c","a","t","i","o","n","/","x","-","e","x","e","c","u","t","a","b","l","e">>,
                <<"0","7","_","E","x","e","c","u","t","a","b","l","e","s">>, <<".","e","x","e">>,
                "Windows executable"),
      FileSignature(<<83,81,76,105,116,101,32,102,111,114,109,97,116,32,51,0>>, 0,
                <<"a","p","p","l","i","c","a","t","i","o","n","/","x","-","s","q","l","i","t","e","3">>,
                <<"1","0","_","D","a","t","a","b","a","s","e","s">>, <<".","s","q","l","i","t","e">>,
                "SQLite database"),
      FileSignature(<<0,1,0,0>>, 0,
                <<"f","o","n","t","/","t","t","f">>,
                <<"0","8","_","F","o","n","t","s">>, <<".","t","t","f">>,
                "TrueType font"),
      FileSignature(<<79,84,84,79>>, 0,
                <<"f","o","n","t","/","o","t","f">>,
                <<"0","8","_","F","o","n","t","s">>, <<".","o","t","f">>,
                "OpenType font"),
      FileSignature(<<119,79,70,70>>, 0,
                <<"f","o","n","t","/","w","o","f","f">>,
                <<"0","8","_","F","o","n","t","s">>, <<".","w","o","f","f">>,
                "WOFF font"),
      FileSignature(<<119,79,70,50>>, 0,
                <<"f","o","n","t","/","w","o","f","f","2">>,
                <<"0","8","_","F","o","n","t","s">>, <<".","w","o","f","f","2">>,
                "WOFF2 font")
    >>

Magic_RIFF == Encode(<<"R","I","F","F">>)

Magic_ftyp == Encode(<<"f","t","y","p">>)

Brands_M4A == { Encode(<<"M","4","A"," ">>), Encode(<<"M","4","A">>) \o <<0>> }

Sig_WAV == FileSignature(Magic_RIFF, 0, <<"a","u","d","i","o","/","w","a","v">>, Cat_Audio, <<".","w","a","v">>, "WAV audio")

Sig_AVI == FileSignature(Magic_RIFF, 0, <<"v","i","d","e","o","/","a","v","i">>, Cat_Video, <<".","a","v","i">>, "AVI video")

Sig_WebP == FileSignature(Magic_RIFF, 0, <<"i","m","a","g","e","/","w","e","b","p">>, Cat_Images, <<".","w","e","b","p">>, "WebP image")

Sig_M4A(magic, offset) ==
    FileSignature(magic, offset, <<"a","u","d","i","o","/","m","p","4">>, Cat_Audio, <<".","m","4","a">>, "M4A audio")

Sig_MOV(magic) ==
    FileSignature(magic, 0, <<"v","i","d","e","o","/","q","u","i","c","k","t","i","m","e">>, Cat_Video, <<".","m","o","v">>, "QuickTime video")

Sig_MP4(offset) ==
    FileSignature(Magic_ftyp, offset, <<"v","i","d","e","o","/","m","p","4">>, Cat_Video, <<".","m","p","4">>, "MP4 video")

\* the refinement of a RIFF header of 12 bytes or more by its sub_type
RiffRefined(sub_type) ==
    CASE sub_type = Encode(<<"W","A","V","E">>) -> Sig_WAV
      [] sub_type = Encode(<<"A","V","I"," ">>) -> Sig_AVI
      [] sub_type = Encode(<<"W","E","B","P">>) -> Sig_WebP
      [] OTHER -> NoSignature

\* the refinement of an ftyp header by its brand; sig when it is none
FtypRefined(sig, ftyp_brand) ==
    IF ftyp_brand \in Brands_M4A THEN Sig_M4A(sig.magic, 0)
    ELSE IF ftyp_brand = Encode(<<"q","t"," "," ">>) THEN Sig_MOV(sig.magic)
    ELSE sig

\* what detect_file_type returns for the first signature that matches
Refined(header, sig) ==
    IF sig.magic = Magic_RIFF /\ Len(header) >= 12
    THEN RiffRefined(Bytes(header, 8, 12))
    ELSE IF Contains(sig.magic, Magic_ftyp)
            \/ (Len(header) >= 12 /\ Bytes(header, 4, 8) = Magic_ftyp)
    THEN FtypRefined(sig, IF Len(header) >= 12 THEN Bytes(header, 8, 12) ELSE <<>>)
    ELSE sig

SignatureMatches(header, sig) ==
    /\ Len(header) >= sig.offset + Len(sig.magic)
    /\ Bytes(header, sig.offset, sig.offset + Len(sig.magic)) = sig.magic

\* the box found at a variable offset
FtypAt(header, offset) ==
    IF (IF Len(header) >= offset + 8 THEN Bytes(header, offset + 4, offset + 8) ELSE <<>>)
           \in Brands_M4A
    THEN Sig_M4A(Magic_ftyp, offset)
    ELSE Sig_MP4(offset)

\* the second loop of detect_file_type over range(4, min(32, len(header) - 4))
FtypScan(header, offsets) ==
    IF offsets = {} THEN NoSignature ELSE FtypAt(header, MinOf(offsets))

FirstSignature(header, hits) ==
    IF hits # {} THEN Refined(header, SIGNATURES[MinOf(hits)])
    ELSE FtypScan(header,
                  {o \in 4..((IF Len(header) - 4 < 32 THEN Len(header) - 4 ELSE 32) - 1) :
                      Bytes(header, o, o + 4) = Magic_ftyp})

DetectHeader(header) ==
    IF Len(header) < 2 THEN NoSignature
    ELSE FirstSignature(header, {k \in DOMAIN SIGNATURES : SignatureMatches(header, SIGNATURES[k])})

\* detect_file_type(filepath) on the filesystem f; denied says that open
\* raises PermissionError
detect_file_type(f, filepath, denied) ==
    IF denied \/ ~IsFile(f, filepath) THEN NoSignature
    ELSE DetectHeader(Bytes(f.files[filepath].bytes, 0, 64))

\* chr(n): the character of the code point n
Chr(n) ==
    CASE n \in 32..126 -> AsciiChars[n - 31]
      [] n = 9 -> "TAB"
      [] n = 233 -> "E_ACUTE"
      [] n = 8212 -> "EM_DASH"
      [] OTHER -> "U+" \o ToString(n)

\* the code points below 256 that str.strip() removes, and their characters
WhiteCodes == {9, 10, 11, 12, 13, 28, 29, 30, 31, 32, 133, 160}

WhiteChars == {Chr(n) : n \in WhiteCodes}

\* bytes.decode("latin-1")
DecodeLatin1(data) == [k \in DOMAIN data |-> Chr(data[k])]

\* bytes.decode("ascii", errors="ignore")
DecodeAscii(data) == DecodeLatin1(SelectSeq(data, LAMBDA b : b < 128))

\* int.from_bytes(data, "big"), what struct.unpack(">H") and (">I") return
RECURSIVE UnpackBE(_)
UnpackBE(data) ==
    IF data = <<>> THEN 0
    ELSE 256 * UnpackBE(SubSeq(data, 1, Len(data) - 1)) + data[Len(data)]

\* int.from_bytes(data, "little")
RECURSIVE UnpackLE(_)
UnpackLE(data) == IF data = <<>> THEN 0 ELSE data[1] + 256 * UnpackLE(Tail(data))

\* bytes.decode("utf-16-be", errors="ignore") of code units outside the
\* surrogates: an odd last byte is dropped
RECURSIVE DecodeUtf16BE(_)
DecodeUtf16BE(data) ==
    IF Len(data) < 2 THEN <<>>
    ELSE <<Chr(UnpackBE(SubSeq(data, 1, 2)))>> \o DecodeUtf16BE(SubSeq(data, 3, Len(data)))

RECURSIVE DecodeUtf16LE(_)
DecodeUtf16LE(data) ==
    IF Len(data) < 2 THEN <<>>
    ELSE <<Chr(UnpackLE(SubSeq(data, 1, 2)))>> \o DecodeUtf16LE(SubSeq(data, 3, Len(data)))

\* bytes.decode("utf-16", errors="ignore"): the byte order mark decides, little
\* endian without one
DecodeUtf16(data) ==
    IF Bytes(data, 0, 2) = <<254, 255>> THEN DecodeUtf16BE(SubSeq(data, 3, Len(data)))
    ELSE IF Bytes(data, 0, 2) = <<255, 254>> THEN DecodeUtf16LE(SubSeq(data, 3, Len(data)))
    ELSE DecodeUtf16LE(data)

\* bytes.decode("utf-8", errors="ignore") of sequences of one and two bytes: a
\* byte that begins or continues no such sequence is dropped
RECURSIVE DecodeUtf8(_)
DecodeUtf8(data) ==
    IF data = <<>> THEN <<>>
    ELSE IF data[1] < 128 THEN <<Chr(data[1])>> \o DecodeUtf8(Tail(data))
    ELSE IF data[1] \in 194..223 /\ Len(data) >= 2 /\ data[2] \in 128..191
    THEN <<Chr((data[1] - 192) * 64 + (data[2] - 128))>>
             \o DecodeUtf8(SubSeq(data, 3, Len(data)))
    ELSE DecodeUtf8(Tail(data))

\* text.strip("\x00").strip()
StripText(text) == Strip(Strip(text, {Chr(0)}), WhiteChars)

\* a call that returns value, and a call that raises the exception
Returns(value) == [raised |-> "", value |-> value]

Throws(exception) == [raised |-> exception, value |-> <<>>]

\* open(filepath, "rb") succeeds
CanOpen(f, filepath, denied) == ~denied /\ IsFile(f, filepath)

\* metadata[key] = value
Put(metadata, key, value) ==
    [k \in DOMAIN metadata \cup {key} |-> IF k = key THEN value ELSE metadata[k]]

\* metadata[key] = value if value (is not empty)
PutText(metadata, key, value) == IF value = <<>> THEN metadata ELSE Put(metadata, key, value)

\* _decode_id3_text(data): the text, <<>> for None and for the empty text
_decode_id3_text(data) ==
    IF data = <<>> THEN <<>>
    ELSE CASE data[1] = 0 -> StripText(DecodeLatin1(Tail(data)))
           [] data[1] = 1 -> StripText(DecodeUtf16(Tail(data)))
           [] data[1] = 2 -> StripText(DecodeUtf16BE(Tail(data)))
           [] data[1] = 3 -> StripText(DecodeUtf8(Tail(data)))
           [] OTHER -> <<>>

\* frame_map.get(frame_id), "" for a frame that is not mapped
FrameKey(frame_id) ==
    CASE frame_id \in {<<"T","I","T","2">>, <<"T","T","2">>} -> "title"
      [] frame_id \in {<<"T","P","E","1">>, <<"T","P","1">>} -> "artist"
      [] frame_id \in {<<"T","A","L","B">>, <<"T","A","L">>} -> "album"
      [] frame_id \in {<<"T","Y","E","R">>, <<"T","Y","E">>, <<"T","D","R","C">>} -> "year"
      [] frame_id \in {<<"T","R","C","K">>, <<"T","R","K">>} -> "track"
      [] frame_id \in {<<"T","C","O","N">>, <<"T","C","O">>} -> "genre"
      [] OTHER -> ""

\* the metadata after a frame with the text
WithFrame(metadata, frame_id, text) ==
    IF text = <<>> \/ FrameKey(frame_id) = "" THEN metadata
    ELSE Put(metadata, FrameKey(frame_id), text)

\* str.isalpha() of an ASCII character
IsAlpha(c) == c \in Range(UpperChars) \cup Range(LowerChars)

RECURSIVE Id3Frames(_, _, _, _)
\* the rest of an iteration of the frame loop: pos is behind the frame header
Id3Frame(tag_data, major_ver, metadata, frame_id, frame_size, pos) ==
    IF frame_size <= 0 \/ frame_size > Len(tag_data) - pos THEN Returns(metadata)
    ELSE IF frame_id = <<>> THEN Throws("IndexError")
    ELSE IF ~IsAlpha(frame_id[1]) THEN Returns(metadata)
    ELSE Id3Frames(tag_data, major_ver, pos + frame_size,
                   WithFrame(metadata, frame_id,
                             _decode_id3_text(Bytes(tag_data, pos, pos + frame_size))))

\* the frame loop of extract_id3_metadata from pos on
Id3Frames(tag_data, major_ver, pos, metadata) ==
    IF ~(pos < Len(tag_data) - 10) THEN Returns(metadata)
    ELSE IF major_ver >= 3
    THEN Id3Frame(tag_data, major_ver, metadata,
                  DecodeAscii(Bytes(tag_data, pos, pos + 4)),
                  UnpackBE(Bytes(tag_data, pos + 4, pos + 8)), pos + 10)
    ELSE Id3Frame(tag_data, major_ver, metadata,
                  DecodeAscii(Bytes(tag_data, pos, pos + 3)),
                  UnpackBE(Bytes(tag_data, pos + 3, pos + 6)), pos + 6)

\* tag_size: the syncsafe integer of size_bytes
SyncSafe(size_bytes) ==
    (size_bytes[1] % 128) * 2097152 + (size_bytes[2] % 128) * 16384
        + (size_bytes[3] % 128) * 128 + (size_bytes[4] % 128)

\* one text field of an ID3v1 tag
Id3v1Field(tag, a, b) == StripText(DecodeAscii(Bytes(tag, a, b)))

Id3v1Tag(tag) ==
    IF Bytes(tag, 0, 3) # Encode(<<"T","A","G">>) THEN <<>>
    ELSE PutText(PutText(PutText(PutText(<<>>, "title", Id3v1Field(tag, 3, 33)),
                                 "artist", Id3v1Field(tag, 33, 63)),
                         "album", Id3v1Field(tag, 63, 93)),
                 "year", Id3v1Field(tag, 93, 97))

\* _extract_id3v1(filepath) on the bytes of the file: f.seek(-128, 2) raises
\* OSError for a file of fewer than 128 bytes
Id3v1Of(data) ==
    IF Len(data) < 128 THEN Returns(<<>>)
    ELSE Returns(Id3v1Tag(SubSeq(data, Len(data) - 127, Len(data))))

_extract_id3v1(f, filepath, denied) ==
    IF ~CanOpen(f, filepath, denied) THEN Returns(<<>>)
    ELSE Id3v1Of(f.files[filepath].bytes)

\* extract_id3_metadata on the bytes of the file, header = f.read(10)
Id3Of(f, filepath, denied, data, header) ==
    IF Bytes(header, 0, 3) # Encode(<<"I","D","3">>) THEN _extract_id3v1(f, filepath, denied)
    ELSE IF Len(header) < 10 THEN Throws("IndexError")
    ELSE Id3Frames(Bytes(data, 10, 10 + (IF SyncSafe(Bytes(header, 6, 10)) < 65536
                                         THEN SyncSafe(Bytes(header, 6, 10)) ELSE 65536)),
                   header[4], 0, <<>>)

\* extract_id3_metadata(filepath): the metadata, or the exception that escapes
extract_id3_metadata(f, filepath, denied) ==
    IF ~CanOpen(f, filepath, denied) THEN Returns(<<>>)
    ELSE Id3Of(f, filepath, denied, f.files[filepath].bytes,
               Bytes(f.files[filepath].bytes, 0, 10))

\* struct.unpack(endian + "H") and struct.unpack(endian + "I") of bytes of the
\* right length
Unpack(endian, data) == IF endian = "<" THEN UnpackLE(data) ELSE UnpackBE(data)

\* the metadata key of an EXIF tag, "" for the other tags
ExifKey(tag) ==
    CASE tag = 271 -> "camera_make"
      [] tag = 272 -> "camera_model"
      [] tag = 306 -> "date_taken"
      [] tag = 270 -> "description"
      [] OTHER -> ""

\* value.decode("ascii", errors="ignore").rstrip("\x00").strip()
ExifText(value) == Strip(RStrip(DecodeAscii(value), {Chr(0)}), WhiteChars)

ExifPut(metadata, tag, text) ==
    IF text = <<>> \/ ExifKey(tag) = "" THEN metadata ELSE Put(metadata, ExifKey(tag), text)

\* an ASCII entry whose text is stored at str_offset
ExifFar(data, metadata, tag, count, str_offset) ==
    IF str_offset + count <= Len(data)
    THEN ExifPut(metadata, tag, ExifText(Bytes(data, str_offset, str_offset + count)))
    ELSE metadata

\* the body of the loop of _parse_exif for the entry at entry_offset
ExifEntry(data, endian, entry_offset, metadata, tag, dtype, count) ==
    IF ~(dtype = 2 /\ count > 0) THEN metadata
    ELSE IF count <= 4
    THEN ExifPut(metadata, tag,
                 ExifText(Bytes(data, entry_offset + 8, entry_offset + 8 + count)))
    ELSE ExifFar(data, metadata, tag, count,
                 Unpack(endian, Bytes(data, entry_offset + 8, entry_offset + 12)))

RECURSIVE ExifEntries(_, _, _, _, _, _)
\* the loop of _parse_exif from entry i on, n = min(num_entries, 50)
ExifEntries(data, endian, ifd_offset, i, n, metadata) ==
    IF i >= n \/ ifd_offset + 2 + i * 12 + 12 > Len(data) THEN metadata
    ELSE ExifEntries(data, endian, ifd_offset, i + 1, n,
                     ExifEntry(data, endian, ifd_offset + 2 + i * 12, metadata,
                               Unpack(endian, Bytes(data, ifd_offset + 2 + i * 12,
                                                    ifd_offset + 4 + i * 12)),
                               Unpack(endian, Bytes(data, ifd_offset + 4 + i * 12,
                                                    ifd_offset + 6 + i * 12)),
                               Unpack(endian, Bytes(data, ifd_offset + 6 + i * 12,
                                                    ifd_offset + 10 + i * 12))))

ExifCount(num_entries) == IF num_entries < 50 THEN num_entries ELSE 50

ExifIfd(data, endian, ifd_offset) ==
    IF ifd_offset + 2 > Len(data) THEN <<>>
    ELSE ExifEntries(data, endian, ifd_offset, 0,
                     ExifCount(Unpack(endian, Bytes(data, ifd_offset, ifd_offset + 2))),
                     <<>>)

\* _parse_exif(data, metadata) for the empty metadata: the metadata it leaves
_parse_exif(data) ==
    IF Len(data) < 8 THEN <<>>
    ELSE IF Bytes(data, 0, 2) = Encode(<<"I","I">>)
    THEN ExifIfd(data, "<", UnpackLE(Bytes(data, 4, 8)))
    ELSE IF Bytes(data, 0, 2) = Encode(<<"M","M">>)
    THEN ExifIfd(data, ">", UnpackBE(Bytes(data, 4, 8)))
    ELSE <<>>

\* f.read(n) of a file of the bytes data with the stream at pos; n = -1 reads
\* to the end
ReadAt(data, pos, n) ==
    IF n < 0 THEN Bytes(data, pos, Len(data)) ELSE Bytes(data, pos, pos + n)

\* the APP1 segment: pos is at its length field
JpegApp1(data, pos) ==
    IF Len(Bytes(data, pos, pos + 2)) < 2 THEN Returns(<<>>)
    ELSE IF UnpackBE(Bytes(data, pos, pos + 2)) - 2 < -1 THEN Throws("ValueError")
    ELSE IF Bytes(ReadAt(data, pos + 2, UnpackBE(Bytes(data, pos, pos + 2)) - 2), 0, 6)
                = Encode(<<"E","x","i","f">>) \o <<0, 0>>
    THEN Returns(_parse_exif(
             SubSeq(ReadAt(data, pos + 2, UnpackBE(Bytes(data, pos, pos + 2)) - 2),
                    7, Len(ReadAt(data, pos + 2, UnpackBE(Bytes(data, pos, pos + 2)) - 2)))))
    ELSE Returns(<<>>)

RECURSIVE JpegMarkers(_, _)
\* the marker loop of extract_jpeg_metadata with the stream at pos
JpegMarkers(data, pos) ==
    IF Len(Bytes(data, pos, pos + 2)) < 2 THEN Returns(<<>>)
    ELSE IF data[pos + 1] # 255 THEN Returns(<<>>)
    ELSE IF data[pos + 2] = 225 THEN JpegApp1(data, pos + 2)
    ELSE IF data[pos + 2] \in {217, 218} THEN Returns(<<>>)
    ELSE IF Len(Bytes(data, pos + 2, pos + 4)) < 2 THEN Returns(<<>>)
    ELSE JpegMarkers(data, pos + 2 + UnpackBE(Bytes(data, pos + 2, pos + 4)))

\* extract_jpeg_metadata(filepath): the metadata, or the exception that escapes
extract_jpeg_metadata(f, filepath, denied) ==
    IF ~CanOpen(f, filepath, denied) THEN Returns(<<>>)
    ELSE IF Bytes(f.files[filepath].bytes, 0, 2) # <<255, 216>> THEN Returns(<<>>)
    ELSE JpegMarkers(f.files[filepath].bytes, 2)

\* s.find(sub, from): the first index of sub in s at or after from, counted
\* from 0, and -1 when there is none
Find(s, sub, from) ==
    IF \E k \in from..(Len(s) - Len(sub)) : SubSeq(s, k + 1, k + Len(sub)) = sub
    THEN MinOf({k \in from..(Len(s) - Len(sub)) : SubSeq(s, k + 1, k + Len(sub)) = sub})
    ELSE -1

\* the value of a PDF string, given as the code points of its latin-1 text: a
\* UTF-16 string with a byte order mark is decoded
PdfValue(value) ==
    IF Bytes(value, 0, 2) = <<254, 255>>
    THEN DecodeUtf16BE(SubSeq(value, 3, Len(value)))
    ELSE DecodeLatin1(value)

PdfPut(metadata, field_name, value) ==
    IF value = <<>> \/ value \in {<<"U","n","t","i","t","l","e","d">>,
                                  <<"u","n","t","i","t","l","e","d">>}
    THEN metadata ELSE Put(metadata, field_name, value)

\* the value between the parentheses that follow the key
PdfBetween(metadata, field_name, rest, paren_start, paren_end) ==
    IF paren_end = -1 THEN metadata
    ELSE PdfPut(metadata, field_name,
                PdfValue(Strip(Bytes(rest, paren_start + 1, paren_end), WhiteCodes)))

PdfAfterKey(metadata, field_name, rest, paren_start) ==
    IF paren_start # -1 /\ paren_start < 50
    THEN PdfBetween(metadata, field_name, rest, paren_start,
                    Find(rest, Encode(<<")">>), paren_start))
    ELSE metadata

\* the body of the loop of extract_pdf_metadata for one key found at idx
PdfKey(metadata, text, key, field_name, idx) ==
    IF idx = -1 THEN metadata
    ELSE PdfAfterKey(metadata, field_name, SubSeq(text, idx + Len(key) + 1, Len(text)),
                     Find(SubSeq(text, idx + Len(key) + 1, Len(text)), Encode(<<"(">>), 0))

PdfKeys ==
    << [key |-> <<"/","T","i","t","l","e">>, field_name |-> "title"],
       [key |-> <<"/","A","u","t","h","o","r">>, field_name |-> "author"],
       [key |-> <<"/","S","u","b","j","e","c","t">>, field_name |-> "subject"],
       [key |-> <<"/","C","r","e","a","t","o","r">>, field_name |-> "creator"],
       [key |-> <<"/","P","r","o","d","u","c","e","r">>, field_name |-> "producer"],
       [key |-> <<"/","C","r","e","a","t","i","o","n","D","a","t","e">>,
        field_name |-> "created"] >>

RECURSIVE PdfLoop(_, _, _)
\* the loop of extract_pdf_metadata from the k-th key on; text is the content as
\* the code points of its latin-1 decoding
PdfLoop(metadata, text, k) ==
    IF k > Len(PdfKeys) THEN metadata
    ELSE PdfLoop(PdfKey(metadata, text, Encode(PdfKeys[k].key), PdfKeys[k].field_name,
                        Find(text, Encode(PdfKeys[k].key), 0)),
                 text, k + 1)

\* extract_pdf_metadata(filepath): the metadata; no exception escapes
extract_pdf_metadata(f, filepath, denied) ==
    IF ~CanOpen(f, filepath, denied) THEN Returns(<<>>)
    ELSE Returns(PdfLoop(<<>>, Bytes(f.files[filepath].bytes, 0, 65536), 1))

(***************************************************************************)
(* The zipfile module.  The archive of a file is what zipfile.ZipFile      *)
(* finds in its bytes: NoArchive where it raises BadZipFile, else the      *)
(* list of the members.  A member has its name, the text its data decodes  *)
(* to, the document ElementTree parses from it, and the exception          *)
(* ZipFile.read raises for it ("" for none): BadZipFile for a wrong        *)
(* CRC-32, RuntimeError for an encrypted member, NotImplementedError for   *)
(* an unknown compression method, zlib.error for a damaged stream.         *)
(***************************************************************************)
\* the archive of the members
Archive(members) == [ok |-> TRUE, members |-> members]

\* the bytes hold no archive: ZipFile raises BadZipFile
NoArchive == [ok |-> FALSE, members |-> <<>>]

ReadFaults == {"BadZipFile", "RuntimeError", "NotImplementedError", "zlib.error"}

\* a document ElementTree cannot parse
NotXml == [ok |-> FALSE, elements |-> <<>>]

Member(name, text, xml, fault) == [name |-> name, text |-> text, xml |-> xml, fault |-> fault]

\* name in zf.namelist()
HasMember(archive, name) == \E k \in DOMAIN archive.members : archive.members[k].name = name

\* the member zf.read(name) reads
MemberOf(archive, name) ==
    archive.members[CHOOSE k \in DOMAIN archive.members : archive.members[k].name = name]

\* the exceptions of zf.read that the except clauses of this module catch
Caught(fault) == fault = "BadZipFile"

Name_ContentTypes == <<"[","C","o","n","t","e","n","t","_","T","y","p","e","s","]",".","x","m","l">>

Name_mimetype == <<"m","i","m","e","t","y","p","e">>

Name_core_xml == <<"d","o","c","P","r","o","p","s","/","c","o","r","e",".","x","m","l">>

Name_app_xml == <<"d","o","c","P","r","o","p","s","/","a","p","p",".","x","m","l">>

Magic_PK == Encode(<<"P","K">>)

Mime_OOXML == <<"a","p","p","l","i","c","a","t","i","o","n","/","v","n","d",".","o","p","e","n","x","m","l","f","o","r","m","a","t","s","-","o","f","f","i","c","e","d","o","c","u","m","e","n","t",".">>

Text_wordprocessingml == <<"w","o","r","d","p","r","o","c","e","s","s","i","n","g","m","l">>

Text_spreadsheetml == <<"s","p","r","e","a","d","s","h","e","e","t","m","l">>

Text_presentationml == <<"p","r","e","s","e","n","t","a","t","i","o","n","m","l">>

Text_opendocument == <<"o","p","e","n","d","o","c","u","m","e","n","t",".">>

\* the signature the content types ct stand for, NoSignature for none
OfficeByContentTypes(ct) ==
    CASE Contains(ct, Text_wordprocessingml) ->
             FileSignature(Magic_PK, 0,
                           Mime_OOXML \o Text_wordprocessingml \o <<".","d","o","c","u","m","e","n","t">>,
                           Cat_Documents, <<".","d","o","c","x">>, "Word document")
      [] Contains(ct, Text_spreadsheetml) ->
             FileSignature(Magic_PK, 0,
                           Mime_OOXML \o Text_spreadsheetml \o <<".","s","h","e","e","t">>,
                           Cat_Documents, <<".","x","l","s","x">>, "Excel spreadsheet")
      [] Contains(ct, Text_presentationml) ->
             FileSignature(Magic_PK, 0,
                           Mime_OOXML \o Text_presentationml
                               \o <<".","p","r","e","s","e","n","t","a","t","i","o","n">>,
                           Cat_Documents, <<".","p","p","t","x">>, "PowerPoint presentation")
      [] OTHER -> NoSignature

\* the signature the stripped content of the member mimetype stands for
OpenDocumentBy(mimetype) ==
    CASE Contains(mimetype, Text_opendocument \o <<"t","e","x","t">>) ->
             FileSignature(Magic_PK, 0, mimetype, Cat_Documents, <<".","o","d","t">>,
                           "OpenDocument text")
      [] Contains(mimetype, Text_opendocument \o <<"s","p","r","e","a","d","s","h","e","e","t">>) ->
             FileSignature(Magic_PK, 0, mimetype, Cat_Documents, <<".","o","d","s">>,
                           "OpenDocument spreadsheet")
      [] Contains(mimetype, Text_opendocument
                                \o <<"p","r","e","s","e","n","t","a","t","i","o","n">>) ->
             FileSignature(Magic_PK, 0, mimetype, Cat_Documents, <<".","o","d","p">>,
                           "OpenDocument presentation")
      [] OTHER -> NoSignature

\* the second half of _is_zip_based_office: the OpenDocument formats
OfficeByMimetype(archive) ==
    IF ~HasMember(archive, Name_mimetype) THEN Returns(NoSignature)
    ELSE IF Caught(MemberOf(archive, Name_mimetype).fault) THEN Returns(NoSignature)
    ELSE IF MemberOf(archive, Name_mimetype).fault # ""
    THEN Throws(MemberOf(archive, Name_mimetype).fault)
    ELSE Returns(OpenDocumentBy(Strip(MemberOf(archive, Name_mimetype).text, WhiteChars)))

\* _is_zip_based_office on the archive of the file
OfficeOfArchive(archive) ==
    IF ~HasMember(archive, Name_ContentTypes) THEN OfficeByMimetype(archive)
    ELSE IF Caught(MemberOf(archive, Name_ContentTypes).fault) THEN Returns(NoSignature)
    ELSE IF MemberOf(archive, Name_ContentTypes).fault # ""
    THEN Throws(MemberOf(archive, Name_ContentTypes).fault)
    ELSE IF OfficeByContentTypes(MemberOf(archive, Name_ContentTypes).text) # NoSignature
    THEN Returns(OfficeByContentTypes(MemberOf(archive, Name_ContentTypes).text))
    ELSE OfficeByMimetype(archive)

\* _is_zip_based_office(filepath): the signature, NoSignature for None, or the
\* exception that escapes
_is_zip_based_office(f, filepath, denied) ==
    IF ~CanOpen(f, filepath, denied) THEN Returns(NoSignature)
    ELSE IF f.files[filepath].archive = NoArchive THEN Returns(NoSignature)
    ELSE OfficeOfArchive(f.files[filepath].archive)

CoreKeys ==
    << [xpath |-> "dc:title", key |-> "title"],
       [xpath |-> "dc:creator", key |-> "author"],
       [xpath |-> "dc:subject", key |-> "subject"],
       [xpath |-> "dc:description", key |-> "description"],
       [xpath |-> "cp:lastModifiedBy", key |-> "last_modified_by"],
       [xpath |-> "cp:category", key |-> "category"],
       [xpath |-> "dcterms:created", key |-> "created"],
       [xpath |-> "dcterms:modified", key |-> "modified"] >>

\* root.find(xpath, ns) is an element with a text
HasText(xml, xpath) == xpath \in DOMAIN xml.elements /\ xml.elements[xpath] # <<>>

RECURSIVE CoreLoop(_, _, _)
\* the loop over the core properties from the k-th on
CoreLoop(metadata, xml, k) ==
    IF k > Len(CoreKeys) THEN metadata
    ELSE CoreLoop(IF /\ HasText(xml, CoreKeys[k].xpath)
                     /\ Strip(xml.elements[CoreKeys[k].xpath], WhiteChars) # <<>>
                  THEN PutText(metadata, CoreKeys[k].key,
                               Strip(xml.elements[CoreKeys[k].xpath], WhiteChars))
                  ELSE metadata,
                  xml, k + 1)

\* the application and the number of pages of docProps/app.xml
AppProperties(metadata, xml) ==
    [k \in DOMAIN metadata
            \cup {key \in {"application", "pages"} :
                     HasText(xml, IF key = "pages" THEN "ep:Pages" ELSE "ep:Application")} |->
        IF k = "application" /\ HasText(xml, "ep:Application")
        THEN Strip(xml.elements["ep:Application"], WhiteChars)
        ELSE IF k = "pages" /\ HasText(xml, "ep:Pages")
        THEN Strip(xml.elements["ep:Pages"], WhiteChars)
        ELSE metadata[k]]

\* the second half of extract_office_metadata with the metadata of the first
OfficeApp(archive, metadata) ==
    IF ~HasMember(archive, Name_app_xml) THEN Returns(metadata)
    ELSE IF Caught(MemberOf(archive, Name_app_xml).fault) THEN Returns(metadata)
    ELSE IF MemberOf(archive, Name_app_xml).fault # ""
    THEN Throws(MemberOf(archive, Name_app_xml).fault)
    ELSE IF ~MemberOf(archive, Name_app_xml).xml.ok THEN Returns(metadata)
    ELSE Returns(AppProperties(metadata, MemberOf(archive, Name_app_xml).xml))

\* extract_office_metadata on the archive of the file
OfficeCore(archive) ==
    IF ~HasMember(archive, Name_core_xml) THEN OfficeApp(archive, <<>>)
    ELSE IF Caught(MemberOf(archive, Name_core_xml).fault) THEN Returns(<<>>)
    ELSE IF MemberOf(archive, Name_core_xml).fault # ""
    THEN Throws(MemberOf(archive, Name_core_xml).fault)
    ELSE IF ~MemberOf(archive, Name_core_xml).xml.ok THEN Returns(<<>>)
    ELSE OfficeApp(archive, CoreLoop(<<>>, MemberOf(archive, Name_core_xml).xml, 1))

\* extract_office_metadata(filepath): the metadata, or the exception that
\* escapes
extract_office_metadata(f, filepath, denied) ==
    IF ~CanOpen(f, filepath, denied) THEN Returns(<<>>)
    ELSE IF f.files[filepath].archive = NoArchive THEN Returns(<<>>)
    ELSE OfficeCore(f.files[filepath].archive)

\* ContentInfo: None is <<>> for the texts and "" for the description
ContentInfo(sig, extension_mismatch, metadata, suggested_name) ==
    [ detected_type |-> sig.mime, detected_category |-> sig.category,
      detected_extension |-> sig.extension, description |-> sig.description,
      extension_mismatch |-> extension_mismatch, metadata |-> metadata,
      suggested_name |-> suggested_name ]

\* meta.get(key, "")
Get(meta, key) == IF key \in DOMAIN meta THEN meta[key] ELSE <<>>

\* text.split("/")[0]
BeforeSlash(text) ==
    IF Find(text, <<"/">>, 0) = -1 THEN text ELSE SubSeq(text, 1, Find(text, <<"/">>, 0))

\* text.zfill(2)
ZFill2(text) ==
    IF Len(text) >= 2 THEN text
    ELSE IF text = <<>> THEN <<"0", "0">>
    ELSE IF text[1] \in {"+", "-"} THEN <<text[1], "0">>
    ELSE <<"0", text[1]>>

\* the parts of the name of an audio file
AudioParts(meta) ==
    IF Get(meta, "artist") # <<>> /\ Get(meta, "title") # <<>>
    THEN IF Get(meta, "track") # <<>>
         THEN << Get(meta, "artist"),
                 ZFill2(BeforeSlash(Get(meta, "track"))) \o <<" ">> \o Get(meta, "title") >>
         ELSE << Get(meta, "artist"), Get(meta, "title") >>
    ELSE IF Get(meta, "title") # <<>> THEN << Get(meta, "title") >>
    ELSE <<>>

\* date[:10].replace(":", "-")
DateClean(date) == ReplaceChar(SubSeq(date, 1, MinOf({10, Len(date)})), ":", <<"-">>)

\* the parts of the name of an image
ImageParts(meta, stem) ==
    IF Get(meta, "date_taken") # <<>>
    THEN IF Get(meta, "description") # <<>>
         THEN << DateClean(Get(meta, "date_taken")), Get(meta, "description") >>
         ELSE IF Get(meta, "camera_model") # <<>>
         THEN << DateClean(Get(meta, "date_taken")), Get(meta, "camera_model") >>
         ELSE << DateClean(Get(meta, "date_taken")), stem >>
    ELSE IF Get(meta, "description") # <<>> THEN << Get(meta, "description") >>
    ELSE <<>>

\* the parts of the name of a document
DocumentParts(meta) ==
    IF Len(Get(meta, "title")) > 3 THEN << Get(meta, "title") >> ELSE <<>>

AudioExtensions ==
    { <<".","m","p","3">>, <<".","f","l","a","c">>, <<".","m","4","a">>, <<".","o","g","g">>,
      <<".","w","a","v">> }

ImageExtensions ==
    { <<".","j","p","g">>, <<".","j","p","e","g">>, <<".","p","n","g">>,
      <<".","t","i","f","f">> }

DocumentExtensions ==
    { <<".","p","d","f">>, <<".","d","o","c","x">>, <<".","x","l","s","x">>,
      <<".","p","p","t","x">> }

\* the parts _build_suggested_name joins
SuggestedParts(category, meta, name) ==
    IF category = Cat_Audio \/ Lower(PathSuffix(name)) \in AudioExtensions
    THEN AudioParts(meta)
    ELSE IF category = Cat_Images \/ Lower(PathSuffix(name)) \in ImageExtensions
    THEN ImageParts(meta, PathStem(name))
    ELSE IF category = Cat_Documents \/ Lower(PathSuffix(name)) \in DocumentExtensions
    THEN DocumentParts(meta)
    ELSE <<>>

\* _build_suggested_name(info, filepath) from the category and the metadata
\* of info: the stem, <<>> for None
_build_suggested_name(category, meta, filepath) ==
    IF DOMAIN meta = {} THEN <<>>
    ELSE Join(<<" ","-"," ">>, SuggestedParts(category, meta, BaseName(filepath)))

\* the extensions that stand for the same format as the extension
Equivalents(extension) ==
    CASE extension = <<".","j","p","g">> -> { <<".","j","p","e","g">> }
      [] extension = <<".","j","p","e","g">> -> { <<".","j","p","g">> }
      [] extension = <<".","t","i","f">> -> { <<".","t","i","f","f">> }
      [] extension = <<".","t","i","f","f">> -> { <<".","t","i","f">> }
      [] extension = <<".","h","t","m">> -> { <<".","h","t","m","l">> }
      [] extension = <<".","h","t","m","l">> -> { <<".","h","t","m">> }
      [] extension = <<".","m","p","g">> -> { <<".","m","p","e","g">> }
      [] extension = <<".","m","p","e","g">> -> { <<".","m","p","g">> }
      [] OTHER -> {}

\* step 2 of analyze_file
ExtensionMismatch(current_ext, sig) ==
    /\ sig # NoSignature
    /\ current_ext # <<>>
    /\ current_ext # sig.extension
    /\ current_ext \notin Equivalents(sig.extension)

OfficeExtensions ==
    { <<".","d","o","c","x">>, <<".","x","l","s","x">>, <<".","p","p","t","x">>,
      <<".","o","d","t">>, <<".","o","d","s">>, <<".","o","d","p">> }

\* step 3 of analyze_file: the metadata of the extractor of the type, or the
\* exception that escapes it
ExtractByType(f, filepath, denied, sig, current_ext) ==
    IF sig.mime # <<>>
    THEN IF Contains(sig.mime, <<"p","d","f">>)
         THEN extract_pdf_metadata(f, filepath, denied)
         ELSE IF Contains(sig.mime, <<"j","p","e","g">>) \/ Contains(sig.mime, <<"j","p","g">>)
         THEN extract_jpeg_metadata(f, filepath, denied)
         ELSE IF Contains(sig.mime, <<"m","p","e","g">>) /\ sig.extension = <<".","m","p","3">>
         THEN extract_id3_metadata(f, filepath, denied)
         ELSE IF \/ Contains(sig.mime, <<"o","f","f","i","c","e","d","o","c","u","m","e","n","t">>)
                 \/ Contains(sig.mime, <<"o","p","e","n","d","o","c","u","m","e","n","t">>)
         THEN extract_office_metadata(f, filepath, denied)
         ELSE Returns(<<>>)
    ELSE IF current_ext \in OfficeExtensions
    THEN extract_office_metadata(f, filepath, denied)
    ELSE Returns(<<>>)

\* steps 2 and 4 of analyze_file around the outcome of step 3
InfoOf(sig, current_ext, extracted, filepath) ==
    IF extracted.raised # "" THEN extracted
    ELSE Returns(ContentInfo(sig, ExtensionMismatch(current_ext, sig), extracted.value,
                             _build_suggested_name(sig.category, extracted.value, filepath)))

\* analyze_file from the signature step 1 has settled on
Analyzed(f, filepath, denied, sig, current_ext) ==
    InfoOf(sig, current_ext, ExtractByType(f, filepath, denied, sig, current_ext), filepath)

Mime_zip == <<"a","p","p","l","i","c","a","t","i","o","n","/","z","i","p">>

\* the refinement of a ZIP signature: office is the outcome of
\* _is_zip_based_office
Promoted(f, filepath, denied, sig, current_ext, office) ==
    IF office.raised # "" THEN office
    ELSE IF office.value # NoSignature
    THEN Analyzed(f, filepath, denied, office.value, current_ext)
    ELSE Analyzed(f, filepath, denied, sig, current_ext)

\* analyze_file from the signature of detect_file_type
AnalyzeDetected(f, filepath, denied, sig, current_ext) ==
    IF sig # NoSignature /\ sig.mime = Mime_zip
    THEN Promoted(f, filepath, denied, sig, current_ext,
                  _is_zip_based_office(f, filepath, denied))
    ELSE Analyzed(f, filepath, denied, sig, current_ext)

\* analyze_file(filepath): the ContentInfo, or the exception that escapes
analyze_file(f, filepath, denied) ==
    AnalyzeDetected(f, filepath, denied, detect_file_type(f, filepath, denied),
                    Lower(PathSuffix(BaseName(filepath))))

(***************************************************************************)
(* file_organizer (the database edition): config.py, models.py,            *)
(* database.py and organizer.py.  Paths are sequences of components as     *)
(* above; every other str is the sequence of its characters.               *)
(***************************************************************************)
DEFAULT_BRANDS ==
    <<
       <<"S","i","l","v","a"," ","O","p","e","r","a","t","i","o","n","s">>,
       <<"D","e","l","t","a"," ","A","i","r","l","i","n","e","s">>, <<"U","b","e","r">>,
       <<"A","m","a","n">>, <<"M","o","n","t","a","g","e">>,
       <<"S","p","r","i","n","g","H","i","l","l"," ","S","u","i","t","e","s">>,
       <<"R","e","s","i","d","e","n","c","e"," ","I","n","n">>,
       <<"C","o","u","r","t","y","a","r","d">>, <<"M","a","r","r","i","o","t","t">>,
       <<"H","e","r","t","z">>,
       <<"2","4"," ","H","o","u","r"," ","F","i","t","n","e","s","s">>,
       <<"S","p","r","i","n","g"," ","C","r","e","e","k"," ","R","a","n","c","h">>,
       <<"P","e","r","s","o","n","a","l"," ","(","S","i","l","v","a",")">>
    >>

\* the mapping of _doc_type_to_folder
DocTypeFolders ==
    <<
       [doc_type |-> <<"I","n","v","o","i","c","e">>, folder |-> <<"I","n","v","o","i","c","e","s">>],
       [doc_type |-> <<"R","e","c","e","i","p","t">>, folder |-> <<"R","e","c","e","i","p","t","s">>],
       [doc_type |-> <<"S","t","a","t","e","m","e","n","t">>, folder |-> <<"F","i","n","a","n","c","i","a","l">>],
       [doc_type |-> <<"C","o","n","t","r","a","c","t">>, folder |-> <<"C","o","n","t","r","a","c","t","s">>],
       [doc_type |-> <<"L","e","a","s","e">>, folder |-> <<"L","e","a","s","e","s">>],
       [doc_type |-> <<"T","a","x","-","F","o","r","m">>, folder |-> <<"T","a","x">>],
       [doc_type |-> <<"T","a","x","-","R","e","t","u","r","n">>, folder |-> <<"T","a","x">>],
       [doc_type |-> <<"W","2">>, folder |-> <<"T","a","x">>],
       [doc_type |-> <<"1","0","9","9">>, folder |-> <<"T","a","x">>],
       [doc_type |-> <<"K","1">>, folder |-> <<"T","a","x">>],
       [doc_type |-> <<"I","n","s","u","r","a","n","c","e">>, folder |-> <<"I","n","s","u","r","a","n","c","e">>],
       [doc_type |-> <<"L","e","g","a","l">>, folder |-> <<"L","e","g","a","l">>],
       [doc_type |-> <<"R","e","p","o","r","t">>, folder |-> <<"R","e","p","o","r","t","s">>],
       [doc_type |-> <<"P","r","o","p","o","s","a","l">>, folder |-> <<"R","e","p","o","r","t","s">>],
       [doc_type |-> <<"L","e","t","t","e","r">>, folder |-> <<"C","o","r","r","e","s","p","o","n","d","e","n","c","e">>],
       [doc_type |-> <<"M","e","m","o">>, folder |-> <<"C","o","r","r","e","s","p","o","n","d","e","n","c","e">>],
       [doc_type |-> <<"E","m","a","i","l">>, folder |-> <<"C","o","r","r","e","s","p","o","n","d","e","n","c","e">>],
       [doc_type |-> <<"C","o","r","r","e","s","p","o","n","d","e","n","c","e">>, folder |-> <<"C","o","r","r","e","s","p","o","n","d","e","n","c","e">>],
       [doc_type |-> <<"F","i","n","a","n","c","i","a","l">>, folder |-> <<"F","i","n","a","n","c","i","a","l">>],
       [doc_type |-> <<"F","i","n","a","n","c","i","a","l","-","M","o","d","e","l">>, folder |-> <<"F","i","n","a","n","c","i","a","l">>],
       [doc_type |-> <<"P","r","o","-","F","o","r","m","a">>, folder |-> <<"F","i","n","a","n","c","i","a","l">>],
       [doc_type |-> <<"B","u","d","g","e","t">>, folder |-> <<"F","i","n","a","n","c","i","a","l">>],
       [doc_type |-> <<"B","a","n","k","-","S","t","a","t","e","m","e","n","t">>, folder |-> <<"F","i","n","a","n","c","i","a","l">>],
       [doc_type |-> <<"I","n","v","e","s","t","m","e","n","t">>, folder |-> <<"F","i","n","a","n","c","i","a","l">>],
       [doc_type |-> <<"A","m","e","n","d","m","e","n","t">>, folder |-> <<"L","e","a","s","e","s">>],
       [doc_type |-> <<"A","d","d","e","n","d","u","m">>, folder |-> <<"L","e","a","s","e","s">>],
       [doc_type |-> <<"A","p","p","r","a","i","s","a","l">>, folder |-> <<"D","u","e","-","D","i","l","i","g","e","n","c","e">>],
       [doc_type |-> <<"I","n","s","p","e","c","t","i","o","n","-","R","e","p","o","r","t">>, folder |-> <<"D","u","e","-","D","i","l","i","g","e","n","c","e">>],
       [doc_type |-> <<"E","n","v","i","r","o","n","m","e","n","t","a","l","-","R","e","p","o","r","t">>, folder |-> <<"D","u","e","-","D","i","l","i","g","e","n","c","e">>],
       [doc_type |-> <<"S","u","r","v","e","y">>, folder |-> <<"D","u","e","-","D","i","l","i","g","e","n","c","e">>],
       [doc_type |-> <<"D","u","e","-","D","i","l","i","g","e","n","c","e">>, folder |-> <<"D","u","e","-","D","i","l","i","g","e","n","c","e">>],
       [doc_type |-> <<"T","i","t","l","e","-","R","e","p","o","r","t">>, folder |-> <<"C","l","o","s","i","n","g">>],
       [doc_type |-> <<"C","l","o","s","i","n","g","-","D","o","c","u","m","e","n","t">>, folder |-> <<"C","l","o","s","i","n","g">>],
       [doc_type |-> <<"L","o","a","n","-","D","o","c","u","m","e","n","t">>, folder |-> <<"L","o","a","n">>],
       [doc_type |-> <<"O","p","e","r","a","t","i","n","g","-","A","g","r","e","e","m","e","n","t">>, folder |-> <<"L","e","g","a","l">>],
       [doc_type |-> <<"P","a","r","t","n","e","r","s","h","i","p","-","A","g","r","e","e","m","e","n","t">>, folder |-> <<"L","e","g","a","l">>],
       [doc_type |-> <<"R","e","n","t","-","R","o","l","l">>, folder |-> <<"P","r","o","p","e","r","t","y","-","O","p","s">>],
       [doc_type |-> <<"T","e","n","a","n","t","-","L","e","d","g","e","r">>, folder |-> <<"P","r","o","p","e","r","t","y","-","O","p","s">>],
       [doc_type |-> <<"C","A","M","-","R","e","c","o","n","c","i","l","i","a","t","i","o","n">>, folder |-> <<"P","r","o","p","e","r","t","y","-","O","p","s">>],
       [doc_type |-> <<"P","h","o","t","o">>, folder |-> <<"P","h","o","t","o","s">>],
       [doc_type |-> <<"P","r","e","s","e","n","t","a","t","i","o","n">>, folder |-> <<"R","e","p","o","r","t","s">>],
       [doc_type |-> <<"S","p","r","e","a","d","s","h","e","e","t">>, folder |-> <<"F","i","n","a","n","c","i","a","l">>],
       [doc_type |-> <<"N","o","t","e","s">>, folder |-> <<"C","o","r","r","e","s","p","o","n","d","e","n","c","e">>],
       [doc_type |-> <<"L","i","c","e","n","s","e">>, folder |-> <<"L","e","g","a","l">>],
       [doc_type |-> <<"P","e","r","m","i","t">>, folder |-> <<"P","r","o","p","e","r","t","y","-","O","p","s">>],
       [doc_type |-> <<"C","e","r","t","i","f","i","c","a","t","e">>, folder |-> <<"P","r","o","p","e","r","t","y","-","O","p","s">>]
    >>
\* Config: the fields the organizer and the classifier read; the confidence
\* threshold 0.7 in hundredths
Config(organized_base, max_path_length) ==
    [ organized_base |-> organized_base,
      review_dir |-> organized_base \o << <<"_","I","n","b","o","x">>, <<"_","R","e","v","i","e","w">> >>,
      brands |-> DEFAULT_BRANDS,
      naming_separator |-> <<"_">>, naming_word_separator |-> <<"-">>,
      naming_lowercase |-> TRUE,
      long_path_enabled |-> FALSE, max_path_length |-> max_path_length,
      agent_confidence_threshold |-> 70 ]

\* FileRecord: the fields the organizer and the classifier read or write; the
\* id is 0 for None
FileRecord(id, file_path, extracted_text, modified_at) ==
    [ id |-> id, file_path |-> file_path, filename |-> BaseName(file_path),
      extension |-> IF PathSuffix(BaseName(file_path)) = <<>> THEN <<>>
                    ELSE Tail(Lower(PathSuffix(BaseName(file_path)))),
      created_at |-> <<>>, modified_at |-> modified_at,
      extracted_text |-> extracted_text,
      tags |-> <<>>, category |-> <<>>, subcategory |-> <<>>, entities |-> <<>>,
      document_type |-> <<>>, date_relevance |-> <<>>,
      confidentiality |-> <<"g","e","n","e","r","a","l">>,
      confidence |-> 0, classified_by |-> "", needs_review |-> FALSE,
      new_path |-> <<>>, new_filename |-> <<>> ]

MoveRecord(record, new_path, t) ==
    [ file_record_id |-> record.id, old_path |-> record.file_path, new_path |-> new_path,
      old_filename |-> record.filename, new_filename |-> BaseName(new_path),
      moved_at |-> t ]

\* the database: the rows of the tables files and moves, and the largest id
\* the AUTOINCREMENT column of files has handed out
EmptyDb == [files |-> <<>>, moves |-> <<>>, seq |-> 0]

\* the columns of a record as upsert_file writes them into the row of the id
RowOf(record, id) == [record EXCEPT !.id = id]

\* Database.upsert_file(record): file_path is the conflict key; the INSERT
\* takes the next id also when the conflict turns it into an UPDATE
\* Database.file_count: SELECT COUNT(*) FROM files
file_count(d) == Len(d.files)

upsert_file(d, record) ==
    IF \E k \in DOMAIN d.files : d.files[k].file_path = record.file_path
    THEN [d EXCEPT !.files =
             [k \in DOMAIN d.files |->
                 IF d.files[k].file_path = record.file_path
                 THEN RowOf(record, d.files[k].id) ELSE d.files[k]],
                   !.seq = @ + 1]
    ELSE [d EXCEPT !.files = Append(@, RowOf(record, d.seq + 1)), !.seq = @ + 1]

\* Database.log_move(move)
log_move(d, move) == [d EXCEPT !.moves = Append(@, move)]

\* a <= b for str in the order of the code points
RECURSIVE TextLeq(_, _)
TextLeq(a, b) ==
    IF a = <<>> THEN TRUE
    ELSE IF b = <<>> THEN FALSE
    ELSE IF Head(a) = Head(b) THEN TextLeq(Tail(a), Tail(b))
    ELSE Ord(Head(a)) < Ord(Head(b))

\* the orders in which SELECT * FROM files ORDER BY modified_at DESC may
\* return the rows: rows of equal modified_at come in any order
RowOrders(d) ==
    {order \in [DOMAIN d.files -> DOMAIN d.files] :
        /\ \A j, k \in DOMAIN d.files : j # k => order[j] # order[k]
        /\ \A j, k \in DOMAIN d.files :
               j < k => TextLeq(d.files[order[k]].modified_at, d.files[order[j]].modified_at)}

\* Database.get_all_files() for one of these orders
get_all_files(d, order) == [k \in DOMAIN d.files |-> d.files[order[k]]]

\* the characters of [\\/:*?"<>|]
UnsafeChars == {"\\", "/", ":", "*", "?", "\"", "<", ">", "|"}

RECURSIVE CollapseRuns(_, _, _)
\* re.sub("[chars]+", rep, s): every run of characters of chars becomes rep
CollapseRuns(s, chars, rep) ==
    IF s = <<>> THEN <<>>
    ELSE IF Head(s) \in chars
    THEN rep \o CollapseRuns(LStrip(s, chars), chars, rep)
    ELSE <<Head(s)>> \o CollapseRuns(Tail(s), chars, rep)

\* Organizer._safe_name(name)
_safe_name(cfg, name) ==
    Strip(CollapseRuns(ReplaceChar(RemoveChars(name, UnsafeChars), " ",
                                   cfg.naming_word_separator),
                       Range(cfg.naming_word_separator), cfg.naming_word_separator),
          Range(cfg.naming_word_separator) \cup {".", " "})

\* the first brand that equals the entity when both are lowered
ExactBrands(cfg, entity) ==
    {k \in DOMAIN cfg.brands : Lower(cfg.brands[k]) = Lower(entity)}

\* the brands that contain the lowered entity or that it contains
PartialBrands(cfg, entity) ==
    {k \in DOMAIN cfg.brands :
        \/ Contains(Lower(entity), Lower(cfg.brands[k]))
        \/ Contains(Lower(cfg.brands[k]), Lower(entity))}

\* the brands whose tag form equals the lowered tag
TagBrands(cfg, tag) ==
    {k \in DOMAIN cfg.brands :
        ReplaceChar(Lower(cfg.brands[k]), " ", <<"-">>) = Lower(tag)}

RECURSIVE PickFromTags(_, _, _)
\* the loop over record.tags from the k-th on
PickFromTags(cfg, tags, k) ==
    IF k > Len(tags) THEN <<>>
    ELSE IF TagBrands(cfg, tags[k]) # {} THEN cfg.brands[MinOf(TagBrands(cfg, tags[k]))]
    ELSE PickFromTags(cfg, tags, k + 1)

RECURSIVE PickFromEntities(_, _, _)
\* the loop over record.entities from the k-th on, then the loop over the tags
PickFromEntities(cfg, record, k) ==
    IF k > Len(record.entities) THEN PickFromTags(cfg, record.tags, 1)
    ELSE IF ExactBrands(cfg, record.entities[k]) # {}
    THEN cfg.brands[MinOf(ExactBrands(cfg, record.entities[k]))]
    ELSE IF PartialBrands(cfg, record.entities[k]) # {}
    THEN cfg.brands[MinOf(PartialBrands(cfg, record.entities[k]))]
    ELSE PickFromEntities(cfg, record, k + 1)

\* Organizer._pick_primary_entity(record): the brand, <<>> for ""
_pick_primary_entity(cfg, record) == PickFromEntities(cfg, record, 1)

\* Organizer._doc_type_to_folder(doc_type)
_doc_type_to_folder(doc_type) ==
    IF \E k \in DOMAIN DocTypeFolders : DocTypeFolders[k].doc_type = doc_type
    THEN DocTypeFolders[CHOOSE k \in DOMAIN DocTypeFolders :
                            DocTypeFolders[k].doc_type = doc_type].folder
    ELSE <<>>

Text_Personal == <<"P","e","r","s","o","n","a","l">>

\* the folders below the base for a personal record
PersonalParts(cfg, record) ==
    IF record.subcategory # <<>>
    THEN << Text_Personal, _safe_name(cfg, record.subcategory) >>
    ELSE << Text_Personal >>

\* the folders below the base for a business record
BusinessParts(cfg, record, entity) ==
    << <<"B","u","s","i","n","e","s","s">>,
       IF entity # <<>> THEN _safe_name(cfg, entity)
       ELSE <<"_","O","t","h","e","r","-","B","u","s","i","n","e","s","s">> >>
        \o (IF _doc_type_to_folder(record.document_type) # <<>>
            THEN << _doc_type_to_folder(record.document_type) >> ELSE <<>>)

\* os.path.normpath of a joined path: empty components vanish
normpath(p) == SelectSeq(p, LAMBDA c : c # <<>>)

\* Organizer._build_destination_path(record)
_build_destination_path(cfg, record) ==
    normpath(cfg.organized_base
                 \o (IF \/ record.confidentiality
                             = <<"p","e","r","s","o","n","a","l","-","p","r","i","v","a","t","e">>
                        \/ record.category = Text_Personal
                     THEN PersonalParts(cfg, record)
                     ELSE BusinessParts(cfg, record, _pick_primary_entity(cfg, record))))

\* the days of the month
DaysIn(year, month) ==
    IF month = 2
    THEN (IF year % 4 = 0 /\ (year % 100 # 0 \/ year % 400 = 0) THEN 29 ELSE 28)
    ELSE IF month \in {4, 6, 9, 11} THEN 30 ELSE 31

AllDigits(s) == \A k \in DOMAIN s : IsDigit(s[k])

\* s[a:b] of a str
Slice(s, a, b) == SubSeq(s, a + 1, IF b < Len(s) THEN b ELSE Len(s))

\* the text begins with a date YYYY-MM-DD of the calendar
IsoDate(s) ==
    /\ Len(s) >= 10
    /\ AllDigits(Slice(s, 0, 4)) /\ s[5] = "-" /\ AllDigits(Slice(s, 5, 7)) /\ s[8] = "-"
    /\ AllDigits(Slice(s, 8, 10))
    /\ DigitsToInt(Slice(s, 0, 4)) >= 1
    /\ DigitsToInt(Slice(s, 5, 7)) \in 1..12
    /\ DigitsToInt(Slice(s, 8, 10))
           \in 1..DaysIn(DigitsToInt(Slice(s, 0, 4)), DigitsToInt(Slice(s, 5, 7)))

\* the text is a time HH:MM:SS of the clock
IsoTime(s) ==
    /\ Len(s) = 8
    /\ AllDigits(Slice(s, 0, 2)) /\ s[3] = ":" /\ AllDigits(Slice(s, 3, 5)) /\ s[6] = ":"
    /\ AllDigits(Slice(s, 6, 8))
    /\ DigitsToInt(Slice(s, 0, 2)) < 24
    /\ DigitsToInt(Slice(s, 3, 5)) < 60
    /\ DigitsToInt(Slice(s, 6, 8)) < 60

\* datetime.fromisoformat(date_str.replace("Z", "+00:00")) succeeds, for the
\* forms YYYY-MM-DD, YYYY-MM-DDxHH:MM:SS and YYYY-MM-DDxHH:MM:SSZ; every other
\* text counts as one it rejects
FromIsoOk(date_str) ==
    /\ IsoDate(date_str)
    /\ \/ Len(date_str) = 10
       \/ Len(date_str) = 19 /\ IsoTime(Slice(date_str, 11, 19))
       \/ Len(date_str) = 20 /\ IsoTime(Slice(date_str, 11, 19)) /\ date_str[20] = "Z"

\* dt.strftime("%m%d%Y") of the date of an ISO text
StrftimeMdy(date_str) == Slice(date_str, 5, 7) \o Slice(date_str, 8, 10) \o Slice(date_str, 0, 4)

\* datetime.now().strftime("%m%d%Y") at tick t of January 1970
NowMdy(t) == _to_mmddyyyy(StrftimeDate(t))

\* Organizer._extract_date_for_name(record) at tick t
_extract_date_for_name(record, t) ==
    IF record.date_relevance # <<>> /\ FromIsoOk(record.date_relevance)
    THEN StrftimeMdy(record.date_relevance)
    ELSE IF record.modified_at # <<>> /\ FromIsoOk(record.modified_at)
    THEN StrftimeMdy(record.modified_at)
    ELSE IF record.created_at # <<>> /\ FromIsoOk(record.created_at)
    THEN StrftimeMdy(record.created_at)
    ELSE NowMdy(t)

\* the company part and the document type part of the name
CompanyPart(cfg, entity) ==
    IF entity # <<>> THEN _safe_name(cfg, entity) ELSE <<"u","n","k","n","o","w","n">>

DocTypePart(cfg, record) ==
    IF record.document_type # <<>> THEN _safe_name(cfg, record.document_type)
    ELSE <<"f","i","l","e">>

\* Organizer._build_filename(record) at tick t
_build_filename(cfg, record, t) ==
    (IF cfg.naming_lowercase THEN Lower(
         Join(cfg.naming_separator,
              << _extract_date_for_name(record, t),
                 CompanyPart(cfg, _pick_primary_entity(cfg, record)),
                 DocTypePart(cfg, record) >>)
             \o (IF record.extension # <<>> THEN <<".">> \o record.extension ELSE <<>>))
     ELSE Join(cfg.naming_separator,
              << _extract_date_for_name(record, t),
                 CompanyPart(cfg, _pick_primary_entity(cfg, record)),
                 DocTypePart(cfg, record) >>)
             \o (IF record.extension # <<>> THEN <<".">> \o record.extension ELSE <<>>))

\* os.path.splitext of a file name: the position of the dot of the extension,
\* 0 when the name has none
ExtDot(name) ==
    IF /\ LastIndexOf(name, ".") > 0
       /\ \E j \in 1..(LastIndexOf(name, ".") - 1) : name[j] # "."
    THEN LastIndexOf(name, ".") ELSE 0

\* f"{base}_{counter}{ext}" of a file name
Numbered(name, counter) ==
    IF ExtDot(name) = 0 THEN name \o <<"_">> \o IntToDigits(counter)
    ELSE SubSeq(name, 1, ExtDot(name) - 1) \o <<"_">> \o IntToDigits(counter)
             \o SubSeq(name, ExtDot(name), Len(name))

RECURSIVE FreeCounter(_, _, _)
\* the loop of _resolve_collision from counter on
FreeCounter(f, path, counter) ==
    IF PathExists(f, Parent(path) \o <<Numbered(BaseName(path), counter)>>)
    THEN FreeCounter(f, path, counter + 1)
    ELSE counter

\* Organizer._resolve_collision(path)
_resolve_collision(f, path) ==
    IF ~PathExists(f, path) THEN path
    ELSE Parent(path) \o <<Numbered(BaseName(path), FreeCounter(f, path, 1))>>

\* len(path) of the str of a path below the anchor
PathLen(p) == IF p = <<>> THEN 1 ELSE Len(Join(<<"/">>, p)) + 1

SIDECAR_FILENAME ==
    <<".","f","i","l","e","_","o","r","g","a","n","i","z","e","r",".","j","s","o","n">>

\* the file names an existing sidecar file lists: none when it holds no JSON
SidecarNames(f, p) ==
    IF IsFile(f, p) /\ f.files[p].kind = "sidecar" THEN f.files[p].names ELSE {}

\* JsonSidecarWriter.write_for_file(record), all that MetadataManager.apply_all
\* does outside Windows: the sidecar file of the directory lists the file; a
\* failure is logged and changes nothing
write_for_file(f, record) ==
    write_text(f, Parent(record.file_path) \o <<SIDECAR_FILENAME>>,
               [kind |-> "sidecar",
                names |-> SidecarNames(f, Parent(record.file_path) \o <<SIDECAR_FILENAME>>)
                              \cup {record.filename}]).fs

\* shutil.move(src, dst) after os.makedirs(dir, exist_ok=True) has returned made
AfterMakedirs(made, src, dst) == IF made.ok THEN shutil_move(made.fs, src, dst) ELSE made

\* os.makedirs(dir, exist_ok=True) and shutil.move(src, dst): the filesystem
\* after them, and whether one of them raised
OsMove(f, dir, src, dst) == AfterMakedirs(mkdir_parents(f, dir), src, dst)

\* the record after _organize_file has moved its file to new_path
Relocated(record, new_path) ==
    [record EXCEPT !.new_path = new_path, !.new_filename = BaseName(new_path),
                   !.file_path = new_path, !.filename = BaseName(new_path)]

\* the end of _organize_file on a real run; moved is the outcome of OsMove.
\* An exception leaves organize without a MoveRecord for the record
Organized(st, record, move, moved) ==
    IF ~moved.ok THEN [st EXCEPT !.fs = moved.fs]
    ELSE [ fs |-> write_for_file(moved.fs, Relocated(record, move.new_path)),
           db |-> log_move(upsert_file(st.db, Relocated(record, move.new_path)), move),
           moves |-> Append(st.moves, move), skipped |-> st.skipped ]

\* _organize_file from the MoveRecord on
OrganizeAs(st, record, dry_run, dest_dir, move) ==
    IF dry_run THEN [st EXCEPT !.moves = Append(@, move)]
    ELSE Organized(st, record, move, OsMove(st.fs, dest_dir, record.file_path, move.new_path))

\* _organize_file from the destination folder and the new file name on
OrganizeTo(st, cfg, record, dry_run, t, dest_dir, new_filename) ==
    IF dest_dir = <<>> \/ new_filename = <<>> THEN st
    ELSE IF normpath(record.file_path) = normpath(dest_dir \o <<new_filename>>) THEN st
    ELSE IF /\ ~cfg.long_path_enabled
            /\ PathLen(dest_dir \o <<new_filename>>) >= cfg.max_path_length
    THEN st
    ELSE OrganizeAs(st, record, dry_run, dest_dir,
                    MoveRecord(record, _resolve_collision(st.fs, dest_dir \o <<new_filename>>),
                               t))

\* Organizer._organize_file(record) at tick t: st holds the filesystem, the
\* database, the moves organize has collected and its count of skipped records
_organize_file(st, cfg, record, dry_run, t) ==
    OrganizeTo(st, cfg, record, dry_run, t, _build_destination_path(cfg, record),
               _build_filename(cfg, record, t))

\* the end of _move_to_review on a real run
Reviewed(st, record, move, moved) ==
    IF ~moved.ok THEN [st EXCEPT !.fs = moved.fs]
    ELSE [ fs |-> moved.fs,
           db |-> log_move(upsert_file(st.db, [record EXCEPT !.file_path = move.new_path]),
                           move),
           moves |-> Append(st.moves, move), skipped |-> st.skipped ]

\* _move_to_review from the MoveRecord on
ReviewAs(st, cfg, record, dry_run, move) ==
    IF dry_run THEN [st EXCEPT !.moves = Append(@, move)]
    ELSE Reviewed(st, record, move,
                  OsMove(st.fs, normpath(cfg.review_dir), record.file_path, move.new_path))

\* Organizer._move_to_review(record) at tick t
_move_to_review(st, cfg, record, dry_run, t) ==
    ReviewAs(st, cfg, record, dry_run,
             MoveRecord(record,
                        _resolve_collision(st.fs, normpath(cfg.review_dir) \o <<record.filename>>),
                        t))

\* a loop that organizes also the records that lack their classification
OrganizeRecord_never_skips(st, cfg, record, dry_run, t) ==
    IF record.needs_review THEN _move_to_review(st, cfg, record, dry_run, t)
    ELSE _organize_file(st, cfg, record, dry_run, t)

\* the body of the loop of organize for one record
OrganizeRecord(st, cfg, record, dry_run, t) ==
    IF record.needs_review THEN _move_to_review(st, cfg, record, dry_run, t)
    ELSE IF record.category = <<>> \/ record.document_type = <<>>
    THEN [st EXCEPT !.skipped = @ + 1]
    ELSE _organize_file(st, cfg, record, dry_run, t)

RECURSIVE OrganizeLoop(_, _, _, _, _, _)
\* the loop of organize from the k-th record on
OrganizeLoop(st, cfg, records, k, dry_run, t) ==
    IF k > Len(records) THEN st
    ELSE OrganizeLoop(OrganizeRecord(st, cfg, records[k], dry_run, t),
                      cfg, records, k + 1, dry_run, t)

\* Organizer.organize(records, dry_run) at tick t on the filesystem f and the
\* database d: the filesystem and the database after it and the moves it
\* returns
organize(f, d, cfg, records, dry_run, t) ==
    OrganizeLoop([fs |-> f, db |-> d, moves |-> <<>>, skipped |-> 0], cfg, records, 1,
                 dry_run, t)

(***************************************************************************)
(* agent/classifier.py.  A regular expression is the sequence of its       *)
(* items: Rep(set, min, max) is min to max characters of the set,          *)
(* Many(set, min) is min characters of the set and more, WordBoundary is   *)
(* \b and NotBehind(pattern) is (?<!pattern).  Confidences are counted in  *)
(* hundredths.                                                             *)
(***************************************************************************)
Rep(set, min, max) == [kind |-> "rep", set |-> set, min |-> min, max |-> max, sub |-> <<>>]

Many(set, min) == [kind |-> "many", set |-> set, min |-> min, max |-> min, sub |-> <<>>]

WordBoundary == [kind |-> "boundary", set |-> {}, min |-> 0, max |-> 0, sub |-> <<>>]

NotBehind(pattern) ==
    [kind |-> "not behind", set |-> {}, min |-> 0, max |-> 0, sub |-> pattern]

\* the items of a literal text
Lit(text) == [k \in DOMAIN text |-> Rep({text[k]}, 1, 1)]

\* the characters of the class \w
WordChars == Range(UpperChars) \cup Range(LowerChars) \cup Range(DigitChars) \cup {"_"}

\* doc_type_patterns: the document types in the order of the dict, each with
\* its regular expressions
doc_type_patterns ==
    <<
       [doc_type |-> <<"I","n","v","o","i","c","e">>,
        patterns |-> <<
            Lit(<<"i","n","v","o","i","c","e">>),
            Lit(<<"i","n","v">>) \o <<Rep(WhiteChars \cup {"_", "#", "-"}, 1, 1)>> \o <<Rep(Range(DigitChars), 1, 1)>>,
            Lit(<<"b","i","l","l">>) \o <<Many(WhiteChars, 1)>> \o Lit(<<"t","o">>),
            Lit(<<"a","m","o","u","n","t">>) \o <<Many(WhiteChars, 1)>> \o Lit(<<"d","u","e">>) >>],
       [doc_type |-> <<"R","e","c","e","i","p","t">>,
        patterns |-> <<
            Lit(<<"r","e","c","e","i","p","t">>),
            Lit(<<"p","a","y","m","e","n","t">>) \o <<Many(WhiteChars, 1)>> \o Lit(<<"r","e","c","e","i","v","e","d">>),
            Lit(<<"t","r","a","n","s","a","c","t","i","o","n">>) \o <<Many(WhiteChars, 1)>> \o Lit(<<"i","d">>) >>],
       [doc_type |-> <<"S","t","a","t","e","m","e","n","t">>,
        patterns |-> <<
            Lit(<<"s","t","a","t","e","m","e","n","t">>),
            Lit(<<"a","c","c","o","u","n","t">>) \o <<Many(WhiteChars, 1)>> \o Lit(<<"s","u","m","m","a","r","y">>),
            Lit(<<"b","a","l","a","n","c","e">>) >>],
       [doc_type |-> <<"L","e","a","s","e">>,
        patterns |-> <<
            Lit(<<"l","e","a","s","e">>),
            Lit(<<"t","e","n","a","n","t">>),
            Lit(<<"l","a","n","d","l","o","r","d">>),
            Lit(<<"r","e","n","t">>) \o <<Many(WhiteChars, 1)>> \o Lit(<<"c","o","m","m","e","n","c","e","m","e","n","t">>),
            Lit(<<"p","r","e","m","i","s","e","s">>),
            Lit(<<"l","e","s","s","o","r">>),
            Lit(<<"l","e","s","s","e","e">>) >>],
       [doc_type |-> <<"C","o","n","t","r","a","c","t">>,
        patterns |-> <<
            Lit(<<"c","o","n","t","r","a","c","t">>),
            <<NotBehind(Lit(<<"l","e","a","s","e">>) \o <<Rep(WhiteChars, 1, 1)>>)>> \o Lit(<<"a","g","r","e","e","m","e","n","t">>),
            Lit(<<"t","e","r","m","s">>) \o <<Many(WhiteChars, 1)>> \o Lit(<<"a","n","d">>) \o <<Many(WhiteChars, 1)>> \o Lit(<<"c","o","n","d","i","t","i","o","n","s">>) >>],
       [doc_type |-> <<"T","a","x","-","F","o","r","m">>,
        patterns |-> <<
            Lit(<<"w">>) \o <<Rep({"-"}, 0, 1)>> \o Lit(<<"2">>) \o <<WordBoundary>>,
            <<WordBoundary>> \o Lit(<<"1","0","9","9">>) \o <<WordBoundary>>,
            Lit(<<"k">>) \o <<Rep({"-"}, 0, 1)>> \o Lit(<<"1">>) \o <<WordBoundary>>,
            Lit(<<"f","o","r","m">>) \o <<Many(WhiteChars, 1)>> \o <<Rep(Range(DigitChars), 3, 4)>> >>],
       [doc_type |-> <<"T","a","x","-","R","e","t","u","r","n">>,
        patterns |-> <<
            Lit(<<"t","a","x">>) \o <<Many(WhiteChars, 1)>> \o Lit(<<"r","e","t","u","r","n">>),
            Lit(<<"f","o","r","m">>) \o <<Many(WhiteChars, 1)>> \o Lit(<<"1","0","4","0">>),
            Lit(<<"s","c","h","e","d","u","l","e">>) \o <<Many(WhiteChars, 1)>> \o <<Rep({"a", "b", "c", "d", "e"}, 1, 1)>> >>],
       [doc_type |-> <<"I","n","s","u","r","a","n","c","e">>,
        patterns |-> <<
            Lit(<<"i","n","s","u","r","a","n","c","e">>),
            Lit(<<"p","o","l","i","c","y">>) \o <<Many(WhiteChars, 1)>> \o Lit(<<"n","u","m","b","e","r">>),
            Lit(<<"c","o","v","e","r","a","g","e">>),
            Lit(<<"p","r","e","m","i","u","m">>) >>],
       [doc_type |-> <<"L","e","g","a","l">>,
        patterns |-> <<
            Lit(<<"a","t","t","o","r","n","e","y">>),
            Lit(<<"l","a","w">>) \o <<Many(WhiteChars, 1)>> \o Lit(<<"f","i","r","m">>),
            Lit(<<"l","e","g","a","l">>) \o <<Many(WhiteChars, 1)>> \o Lit(<<"n","o","t","i","c","e">>),
            Lit(<<"l","i","t","i","g","a","t","i","o","n">>) >>],
       [doc_type |-> <<"R","e","p","o","r","t">>,
        patterns |-> <<
            Lit(<<"r","e","p","o","r","t">>),
            Lit(<<"a","n","a","l","y","s","i","s">>),
            Lit(<<"f","i","n","d","i","n","g","s">>),
            Lit(<<"e","x","e","c","u","t","i","v","e">>) \o <<Many(WhiteChars, 1)>> \o Lit(<<"s","u","m","m","a","r","y">>) >>],
       [doc_type |-> <<"P","r","o","p","o","s","a","l">>,
        patterns |-> <<
            Lit(<<"p","r","o","p","o","s","a","l">>),
            Lit(<<"s","c","o","p","e">>) \o <<Many(WhiteChars, 1)>> \o Lit(<<"o","f">>) \o <<Many(WhiteChars, 1)>> \o Lit(<<"w","o","r","k">>),
            Lit(<<"q","u","o","t","a","t","i","o","n">>) >>],
       [doc_type |-> <<"L","e","t","t","e","r">>,
        patterns |-> <<
            Lit(<<"d","e","a","r">>) \o <<Many(WhiteChars, 1)>> \o <<Rep(WordChars, 1, 1)>>,
            Lit(<<"s","i","n","c","e","r","e","l","y">>),
            Lit(<<"r","e","g","a","r","d","s">>),
            Lit(<<"t","o">>) \o <<Many(WhiteChars, 1)>> \o Lit(<<"w","h","o","m">>) >>],
       [doc_type |-> <<"F","i","n","a","n","c","i","a","l","-","M","o","d","e","l">>,
        patterns |-> <<
            Lit(<<"p","r","o">>) \o <<Many(WhiteChars, 0)>> \o Lit(<<"f","o","r","m","a">>),
            Lit(<<"f","i","n","a","n","c","i","a","l">>) \o <<Many(WhiteChars, 1)>> \o Lit(<<"m","o","d","e","l">>),
            Lit(<<"p","r","o","j","e","c","t","i","o","n">>),
            Lit(<<"u","n","d","e","r","w","r","i","t","i","n","g">>),
            Lit(<<"c","a","s","h">>) \o <<Many(WhiteChars, 1)>> \o Lit(<<"f","l","o","w">>) \o <<Many(WhiteChars, 1)>> \o Lit(<<"a","n","a","l","y","s","i","s">>) >>],
       [doc_type |-> <<"M","e","m","o">>,
        patterns |-> <<
            <<WordBoundary>> \o Lit(<<"m","e","m","o">>) \o <<WordBoundary>>,
            Lit(<<"m","e","m","o","r","a","n","d","u","m">>),
            Lit(<<"i","n","t","e","r","n","a","l">>) \o <<Many(WhiteChars, 1)>> \o Lit(<<"m","e","m","o">>) >>],
       [doc_type |-> <<"A","m","e","n","d","m","e","n","t">>,
        patterns |-> <<
            Lit(<<"a","m","e","n","d","m","e","n","t">>),
            Lit(<<"f","i","r","s","t">>) \o <<Many(WhiteChars, 1)>> \o Lit(<<"a","m","e","n","d","m","e","n","t">>),
            Lit(<<"l","e","a","s","e">>) \o <<Many(WhiteChars, 1)>> \o Lit(<<"a","m","e","n","d","m","e","n","t">>) >>],
       [doc_type |-> <<"A","p","p","r","a","i","s","a","l">>,
        patterns |-> <<
            Lit(<<"a","p","p","r","a","i","s","a","l">>),
            Lit(<<"a","p","p","r","a","i","s","e","d">>) \o <<Many(WhiteChars, 1)>> \o Lit(<<"v","a","l","u","e">>),
            Lit(<<"m","a","r","k","e","t">>) \o <<Many(WhiteChars, 1)>> \o Lit(<<"v","a","l","u","e">>) >>],
       [doc_type |-> <<"I","n","s","p","e","c","t","i","o","n","-","R","e","p","o","r","t">>,
        patterns |-> <<
            Lit(<<"i","n","s","p","e","c","t","i","o","n">>),
            Lit(<<"c","o","n","d","i","t","i","o","n">>) \o <<Many(WhiteChars, 1)>> \o Lit(<<"r","e","p","o","r","t">>),
            Lit(<<"p","r","o","p","e","r","t","y">>) \o <<Many(WhiteChars, 1)>> \o Lit(<<"c","o","n","d","i","t","i","o","n">>) >>],
       [doc_type |-> <<"R","e","n","t","-","R","o","l","l">>,
        patterns |-> <<
            Lit(<<"r","e","n","t">>) \o <<Many(WhiteChars, 1)>> \o Lit(<<"r","o","l","l">>),
            Lit(<<"t","e","n","a","n","t">>) \o <<Many(WhiteChars, 1)>> \o Lit(<<"r","o","s","t","e","r">>),
            Lit(<<"u","n","i","t">>) \o <<Many(WhiteChars, 1)>> \o Lit(<<"m","i","x">>) >>],
       [doc_type |-> <<"B","a","n","k","-","S","t","a","t","e","m","e","n","t">>,
        patterns |-> <<
            Lit(<<"b","a","n","k">>) \o <<Many(WhiteChars, 1)>> \o Lit(<<"s","t","a","t","e","m","e","n","t">>),
            Lit(<<"c","h","e","c","k","i","n","g">>) \o <<Many(WhiteChars, 1)>> \o Lit(<<"a","c","c","o","u","n","t">>),
            Lit(<<"s","a","v","i","n","g","s">>) \o <<Many(WhiteChars, 1)>> \o Lit(<<"a","c","c","o","u","n","t">>) >>],
       [doc_type |-> <<"C","l","o","s","i","n","g","-","D","o","c","u","m","e","n","t">>,
        patterns |-> <<
            Lit(<<"c","l","o","s","i","n","g">>),
            Lit(<<"s","e","t","t","l","e","m","e","n","t">>) \o <<Many(WhiteChars, 1)>> \o Lit(<<"s","t","a","t","e","m","e","n","t">>),
            Lit(<<"h","u","d">>) \o <<Rep({"-"}, 0, 1)>> \o Lit(<<"1">>) >>],
       [doc_type |-> <<"L","o","a","n","-","D","o","c","u","m","e","n","t">>,
        patterns |-> <<
            Lit(<<"l","o","a","n">>),
            Lit(<<"p","r","o","m","i","s","s","o","r","y">>) \o <<Many(WhiteChars, 1)>> \o Lit(<<"n","o","t","e">>),
            Lit(<<"m","o","r","t","g","a","g","e">>),
            Lit(<<"t","e","r","m">>) \o <<Many(WhiteChars, 1)>> \o Lit(<<"s","h","e","e","t">>) >>],
       [doc_type |-> <<"O","p","e","r","a","t","i","n","g","-","A","g","r","e","e","m","e","n","t">>,
        patterns |-> <<
            Lit(<<"o","p","e","r","a","t","i","n","g">>) \o <<Many(WhiteChars, 1)>> \o Lit(<<"a","g","r","e","e","m","e","n","t">>),
            Lit(<<"l","l","c">>) \o <<Many(WhiteChars, 1)>> \o Lit(<<"a","g","r","e","e","m","e","n","t">>) >>],
       [doc_type |-> <<"B","u","d","g","e","t">>,
        patterns |-> <<
            Lit(<<"b","u","d","g","e","t">>),
            Lit(<<"a","n","n","u","a","l">>) \o <<Many(WhiteChars, 1)>> \o Lit(<<"b","u","d","g","e","t">>),
            Lit(<<"o","p","e","r","a","t","i","n","g">>) \o <<Many(WhiteChars, 1)>> \o Lit(<<"b","u","d","g","e","t">>) >>],
       [doc_type |-> <<"P","r","e","s","e","n","t","a","t","i","o","n">>,
        patterns |-> <<
            Lit(<<"p","r","e","s","e","n","t","a","t","i","o","n">>),
            Lit(<<"s","l","i","d","e">>),
            Lit(<<"d","e","c","k">>) >>],
       [doc_type |-> <<"P","h","o","t","o">>,
        patterns |-> <<>>],
       [doc_type |-> <<"E","m","a","i","l">>,
        patterns |-> <<
            Lit(<<"f","r","o","m",":">>),
            Lit(<<"t","o",":">>),
            Lit(<<"s","u","b","j","e","c","t",":">>),
            Lit(<<"s","e","n","t",":">>) >>]
    >>

ext_type_map ==
    <<
       [ext |-> <<"j","p","g">>, doc_type |-> <<"P","h","o","t","o">>],
       [ext |-> <<"j","p","e","g">>, doc_type |-> <<"P","h","o","t","o">>],
       [ext |-> <<"p","n","g">>, doc_type |-> <<"P","h","o","t","o">>],
       [ext |-> <<"g","i","f">>, doc_type |-> <<"P","h","o","t","o">>],
       [ext |-> <<"b","m","p">>, doc_type |-> <<"P","h","o","t","o">>],
       [ext |-> <<"t","i","f","f">>, doc_type |-> <<"P","h","o","t","o">>],
       [ext |-> <<"p","p","t">>, doc_type |-> <<"P","r","e","s","e","n","t","a","t","i","o","n">>],
       [ext |-> <<"p","p","t","x">>, doc_type |-> <<"P","r","e","s","e","n","t","a","t","i","o","n">>],
       [ext |-> <<"e","m","l">>, doc_type |-> <<"E","m","a","i","l">>],
       [ext |-> <<"m","s","g">>, doc_type |-> <<"E","m","a","i","l">>]
    >>

category_map ==
    <<
       [doc_type |-> <<"I","n","v","o","i","c","e">>, category |-> <<"F","i","n","a","n","c","e">>, subcategory |-> <<"I","n","v","o","i","c","e","s">>],
       [doc_type |-> <<"R","e","c","e","i","p","t">>, category |-> <<"F","i","n","a","n","c","e">>, subcategory |-> <<"R","e","c","e","i","p","t","s">>],
       [doc_type |-> <<"S","t","a","t","e","m","e","n","t">>, category |-> <<"F","i","n","a","n","c","e">>, subcategory |-> <<"S","t","a","t","e","m","e","n","t","s">>],
       [doc_type |-> <<"B","a","n","k","-","S","t","a","t","e","m","e","n","t">>, category |-> <<"F","i","n","a","n","c","e">>, subcategory |-> <<"B","a","n","k","-","S","t","a","t","e","m","e","n","t","s">>],
       [doc_type |-> <<"F","i","n","a","n","c","i","a","l","-","M","o","d","e","l">>, category |-> <<"F","i","n","a","n","c","e">>, subcategory |-> <<"F","i","n","a","n","c","i","a","l","-","M","o","d","e","l","s">>],
       [doc_type |-> <<"B","u","d","g","e","t">>, category |-> <<"F","i","n","a","n","c","e">>, subcategory |-> <<"B","u","d","g","e","t","s">>],
       [doc_type |-> <<"P","r","o","-","F","o","r","m","a">>, category |-> <<"F","i","n","a","n","c","e">>, subcategory |-> <<"P","r","o","-","F","o","r","m","a","s">>],
       [doc_type |-> <<"C","o","n","t","r","a","c","t">>, category |-> <<"L","e","g","a","l">>, subcategory |-> <<"C","o","n","t","r","a","c","t","s">>],
       [doc_type |-> <<"L","e","a","s","e">>, category |-> <<"L","e","g","a","l">>, subcategory |-> <<"L","e","a","s","e","s">>],
       [doc_type |-> <<"A","m","e","n","d","m","e","n","t">>, category |-> <<"L","e","g","a","l">>, subcategory |-> <<"L","e","a","s","e","s">>],
       [doc_type |-> <<"O","p","e","r","a","t","i","n","g","-","A","g","r","e","e","m","e","n","t">>, category |-> <<"L","e","g","a","l">>, subcategory |-> <<"O","p","e","r","a","t","i","n","g","-","A","g","r","e","e","m","e","n","t","s">>],
       [doc_type |-> <<"L","e","g","a","l">>, category |-> <<"L","e","g","a","l">>, subcategory |-> <<>>],
       [doc_type |-> <<"A","p","p","r","a","i","s","a","l">>, category |-> <<"D","e","a","l","s">>, subcategory |-> <<"A","p","p","r","a","i","s","a","l","s">>],
       [doc_type |-> <<"I","n","s","p","e","c","t","i","o","n","-","R","e","p","o","r","t">>, category |-> <<"D","e","a","l","s">>, subcategory |-> <<"I","n","s","p","e","c","t","i","o","n","s">>],
       [doc_type |-> <<"C","l","o","s","i","n","g","-","D","o","c","u","m","e","n","t">>, category |-> <<"D","e","a","l","s">>, subcategory |-> <<"C","l","o","s","i","n","g","-","D","o","c","u","m","e","n","t","s">>],
       [doc_type |-> <<"L","o","a","n","-","D","o","c","u","m","e","n","t">>, category |-> <<"D","e","a","l","s">>, subcategory |-> <<"L","o","a","n","-","D","o","c","u","m","e","n","t","s">>],
       [doc_type |-> <<"T","a","x","-","F","o","r","m">>, category |-> <<"T","a","x">>, subcategory |-> <<>>],
       [doc_type |-> <<"T","a","x","-","R","e","t","u","r","n">>, category |-> <<"T","a","x">>, subcategory |-> <<"R","e","t","u","r","n","s">>],
       [doc_type |-> <<"I","n","s","u","r","a","n","c","e">>, category |-> <<"I","n","s","u","r","a","n","c","e">>, subcategory |-> <<"P","o","l","i","c","i","e","s">>],
       [doc_type |-> <<"R","e","p","o","r","t">>, category |-> <<"R","e","p","o","r","t","s">>, subcategory |-> <<>>],
       [doc_type |-> <<"P","r","e","s","e","n","t","a","t","i","o","n">>, category |-> <<"R","e","p","o","r","t","s">>, subcategory |-> <<"P","r","e","s","e","n","t","a","t","i","o","n","s">>],
       [doc_type |-> <<"P","r","o","p","o","s","a","l">>, category |-> <<"R","e","p","o","r","t","s">>, subcategory |-> <<>>],
       [doc_type |-> <<"L","e","t","t","e","r">>, category |-> <<"C","o","r","r","e","s","p","o","n","d","e","n","c","e">>, subcategory |-> <<"L","e","t","t","e","r","s">>],
       [doc_type |-> <<"M","e","m","o">>, category |-> <<"C","o","r","r","e","s","p","o","n","d","e","n","c","e">>, subcategory |-> <<"M","e","m","o","s">>],
       [doc_type |-> <<"E","m","a","i","l">>, category |-> <<"C","o","r","r","e","s","p","o","n","d","e","n","c","e">>, subcategory |-> <<"E","m","a","i","l","s">>],
       [doc_type |-> <<"R","e","n","t","-","R","o","l","l">>, category |-> <<"P","r","o","p","e","r","t","y","-","O","p","s">>, subcategory |-> <<"R","e","n","t","-","R","o","l","l","s">>],
       [doc_type |-> <<"P","h","o","t","o">>, category |-> <<>>, subcategory |-> <<"P","h","o","t","o","s">>]
    >>

personal_indicators ==
    {
       <<"b","i","r","t","h","d","a","y">>, <<"f","a","m","i","l","y">>,
       <<"h","e","a","l","t","h">>, <<"m","e","d","i","c","a","l">>,
       <<"p","e","r","s","o","n","a","l">>, <<"r","e","c","i","p","e">>,
       <<"s","c","h","o","o","l">>, <<"v","a","c","a","t","i","o","n">>,
       <<"w","e","d","d","i","n","g">>
    }

cre_tags ==
    <<
       [tag |-> <<"t","i","-","a","l","l","o","w","a","n","c","e">>,
        patterns |-> <<
            Lit(<<"t","i">>) \o <<Many(WhiteChars, 1)>> \o Lit(<<"a","l","l","o","w","a","n","c","e">>),
            Lit(<<"t","e","n","a","n","t">>) \o <<Many(WhiteChars, 1)>> \o Lit(<<"i","m","p","r","o","v","e","m","e","n","t">>) >>],
       [tag |-> <<"n","n","n">>,
        patterns |-> <<
            <<WordBoundary>> \o Lit(<<"n","n","n">>) \o <<WordBoundary>>,
            Lit(<<"t","r","i","p","l","e">>) \o <<Many(WhiteChars, 1)>> \o Lit(<<"n","e","t">>) >>],
       [tag |-> <<"c","a","m">>,
        patterns |-> <<
            <<WordBoundary>> \o Lit(<<"c","a","m">>) \o <<WordBoundary>>,
            Lit(<<"c","o","m","m","o","n">>) \o <<Many(WhiteChars, 1)>> \o Lit(<<"a","r","e","a">>) \o <<Many(WhiteChars, 1)>> \o Lit(<<"m","a","i","n","t","e","n","a","n","c","e">>) >>],
       [tag |-> <<"n","o","i">>,
        patterns |-> <<
            <<WordBoundary>> \o Lit(<<"n","o","i">>) \o <<WordBoundary>>,
            Lit(<<"n","e","t">>) \o <<Many(WhiteChars, 1)>> \o Lit(<<"o","p","e","r","a","t","i","n","g">>) \o <<Many(WhiteChars, 1)>> \o Lit(<<"i","n","c","o","m","e">>) >>],
       [tag |-> <<"c","a","p","-","r","a","t","e">>,
        patterns |-> <<
            Lit(<<"c","a","p">>) \o <<Many(WhiteChars, 1)>> \o Lit(<<"r","a","t","e">>),
            Lit(<<"c","a","p","i","t","a","l","i","z","a","t","i","o","n">>) \o <<Many(WhiteChars, 1)>> \o Lit(<<"r","a","t","e">>) >>]
    >>

location_patterns ==
    <<
       [pattern |-> Lit(<<"a","l","i","s","o">>) \o <<Many(WhiteChars, 1)>> \o Lit(<<"v","i","e","j","o">>), tag |-> <<"a","l","i","s","o","-","v","i","e","j","o">>],
       [pattern |-> Lit(<<"i","r","v","i","n","e">>), tag |-> <<"i","r","v","i","n","e">>],
       [pattern |-> Lit(<<"l","o","s">>) \o <<Many(WhiteChars, 1)>> \o Lit(<<"a","n","g","e","l","e","s">>), tag |-> <<"l","o","s","-","a","n","g","e","l","e","s">>],
       [pattern |-> Lit(<<"s","a","n">>) \o <<Many(WhiteChars, 1)>> \o Lit(<<"d","i","e","g","o">>), tag |-> <<"s","a","n","-","d","i","e","g","o">>],
       [pattern |-> Lit(<<"o","r","a","n","g","e">>) \o <<Many(WhiteChars, 1)>> \o Lit(<<"c","o","u","n","t","y">>), tag |-> <<"o","r","a","n","g","e","-","c","o","u","n","t","y">>]
    >>

\* the names of the months, January first
MonthNames ==
    <<
       <<"J","a","n","u","a","r","y">>, <<"F","e","b","r","u","a","r","y">>,
       <<"M","a","r","c","h">>, <<"A","p","r","i","l">>, <<"M","a","y">>, <<"J","u","n","e">>,
       <<"J","u","l","y">>, <<"A","u","g","u","s","t">>,
       <<"S","e","p","t","e","m","b","e","r">>, <<"O","c","t","o","b","e","r">>,
       <<"N","o","v","e","m","b","e","r">>, <<"D","e","c","e","m","b","e","r">>
    >>
RECURSIVE RunLength(_, _, _)
\* the number of characters of the set that follow one another from pos on
RunLength(text, pos, set) ==
    IF pos <= Len(text) /\ text[pos] \in set THEN 1 + RunLength(text, pos + 1, set) ELSE 0

\* the most characters the item may take from pos on
MostOf(text, pos, item) ==
    IF item.kind = "many" THEN RunLength(text, pos, item.set)
    ELSE MinOf({item.max, RunLength(text, pos, item.set)})

\* the width of a pattern of items that take a fixed number of characters
RECURSIVE Width(_)
Width(pattern) == IF pattern = <<>> THEN 0 ELSE Head(pattern).min + Width(Tail(pattern))

RECURSIVE MatchFrom(_, _, _, _)
\* the items of the pattern from the k-th on match the text from pos on
MatchFrom(text, pattern, k, pos) ==
    IF k > Len(pattern) THEN TRUE
    ELSE IF pattern[k].kind = "boundary"
    THEN Boundary(text, pos) /\ MatchFrom(text, pattern, k + 1, pos)
    ELSE IF pattern[k].kind = "not behind"
    THEN /\ ~ (/\ pos - Width(pattern[k].sub) >= 1
               /\ MatchFrom(SubSeq(text, pos - Width(pattern[k].sub), pos - 1),
                            pattern[k].sub, 1, 1))
         /\ MatchFrom(text, pattern, k + 1, pos)
    ELSE \E n \in pattern[k].min..MostOf(text, pos, pattern[k]) :
             MatchFrom(text, pattern, k + 1, pos + n)

\* re.search(pattern, text) finds a match
Search(pattern, text) == \E pos \in 1..(Len(text) + 1) : MatchFrom(text, pattern, 1, pos)

\* ClassificationResult: the fields _apply_classification copies into the
\* fields of the record that the organizer reads
ClassificationResult(tags, category, subcategory, entities, document_type, date_relevance, confidentiality, confidence) ==
    [ tags |-> tags, category |-> category, subcategory |-> subcategory,
      entities |-> entities, document_type |-> document_type,
      date_relevance |-> date_relevance, confidentiality |-> confidentiality,
      confidence |-> confidence ]

\* (record.extracted_text[:3000] + " " + record.filename).lower()
TextLower(record) == Lower(Slice(record.extracted_text, 0, 3000) \o <<" ">> \o record.filename)

\* the first test of the loop over the brands, and the second
BrandInText(brand, record) ==
    \/ Contains(Lower(record.filename), Lower(brand))
    \/ Contains(TextLower(record), Lower(brand))

BrandInName(brand, record) ==
    Contains(RemoveChars(Lower(record.filename), {" ", "-", "_"}),
             RemoveChars(Lower(brand), {" "}))

\* the brands one of the two tests finds
BrandsFound(cfg, record) ==
    {k \in DOMAIN cfg.brands :
        BrandInText(cfg.brands[k], record) \/ BrandInName(cfg.brands[k], record)}

\* detected_brand, <<>> for ""
DetectedBrand(cfg, record) ==
    IF BrandsFound(cfg, record) = {} THEN <<>>
    ELSE cfg.brands[MinOf(BrandsFound(cfg, record))]

\* the confidence factor of the brand
BrandFactor(cfg, record) ==
    IF BrandsFound(cfg, record) = {} THEN 0
    ELSE IF BrandInText(DetectedBrand(cfg, record), record) THEN 30 ELSE 25

\* the document type of the extension, <<>> for none
ExtType(record) ==
    IF \E k \in DOMAIN ext_type_map : ext_type_map[k].ext = Lower(record.extension)
    THEN ext_type_map[CHOOSE k \in DOMAIN ext_type_map :
                          ext_type_map[k].ext = Lower(record.extension)].doc_type
    ELSE <<>>

\* one of the patterns of the k-th document type matches
TypeMatches(k, text_lower) ==
    \E j \in DOMAIN doc_type_patterns[k].patterns :
        Search(doc_type_patterns[k].patterns[j], text_lower)

\* the document types whose patterns the loop reaches and finds matching: the
\* loop ends after the first type once the extension has set a type
TypesFound(record) ==
    {k \in DOMAIN doc_type_patterns :
        /\ ExtType(record) # <<>> => k = 1
        /\ TypeMatches(k, TextLower(record))}

\* result.document_type after both detections
DocumentType(record) ==
    IF TypesFound(record) = {} THEN ExtType(record)
    ELSE doc_type_patterns[MinOf(TypesFound(record))].doc_type

TypeFactor(record) ==
    (IF ExtType(record) # <<>> THEN 20 ELSE 0) + (IF TypesFound(record) # {} THEN 30 ELSE 0)

InCategoryMap(doc_type) == \E k \in DOMAIN category_map : category_map[k].doc_type = doc_type

CategoryRow(doc_type) ==
    category_map[CHOOSE k \in DOMAIN category_map : category_map[k].doc_type = doc_type]

\* one of the personal indicators occurs in the text
IsPersonal(record) == \E ind \in personal_indicators : Contains(TextLower(record), ind)

\* result.category and result.subcategory
ClassCategory(record, doc_type) ==
    IF InCategoryMap(doc_type) /\ CategoryRow(doc_type).category # <<>>
    THEN CategoryRow(doc_type).category
    ELSE IF IsPersonal(record) THEN Text_Personal ELSE <<>>

ClassSubcategory(doc_type) ==
    IF InCategoryMap(doc_type) THEN CategoryRow(doc_type).subcategory ELSE <<>>

\* result.confidentiality
ConfidentialityOf(record, brand) ==
    IF IsPersonal(record) THEN <<"p","e","r","s","o","n","a","l","-","p","r","i","v","a","t","e">>
    ELSE IF brand # <<>> /\ brand # DEFAULT_BRANDS[13]
    THEN <<"b","u","s","i","n","e","s","s","-","c","o","n","f","i","d","e","n","t","i","a","l">>
    ELSE <<"g","e","n","e","r","a","l">>

\* the confidence factors of the category and of the confidentiality
OtherFactors(record, brand, doc_type) ==
    (IF InCategoryMap(doc_type) THEN 20 ELSE 0)
        + (IF IsPersonal(record) \/ (brand # <<>> /\ brand # DEFAULT_BRANDS[13])
           THEN 10 ELSE 0)

RECURSIVE Dedup(_)
\* list(dict.fromkeys(tags))
Dedup(tags) ==
    IF tags = <<>> THEN <<>>
    ELSE <<Head(tags)>> \o Dedup(SelectSeq(Tail(tags), LAMBDA x : x # Head(tags)))

\* the tags of the tables cre_tags and location_patterns for the text
CreTags(text_lower) ==
    SelectSeq([k \in DOMAIN cre_tags |->
                  IF \E j \in DOMAIN cre_tags[k].patterns :
                         Search(cre_tags[k].patterns[j], text_lower)
                  THEN cre_tags[k].tag ELSE <<>>],
              LAMBDA x : x # <<>>)

LocationTags(text_lower) ==
    SelectSeq([k \in DOMAIN location_patterns |->
                  IF Search(location_patterns[k].pattern, text_lower)
                  THEN location_patterns[k].tag ELSE <<>>],
              LAMBDA x : x # <<>>)

\* the quarter tag of a date whose month is written in digits; int() raises
\* ValueError for the other dates of the model
QuarterTag(date_str) ==
    IF Len(date_str) >= 7 /\ AllDigits(Slice(date_str, 5, 7))
    THEN << <<"q">> \o IntToDigits(((DigitsToInt(Slice(date_str, 5, 7)) - 1) \div 3) + 1)
                \o <<"-">> \o Slice(date_str, 0, 4) >>
    ELSE <<>>

\* the year tag
YearTag(date_str) == IF Len(date_str) >= 4 THEN << Slice(date_str, 0, 4) >> ELSE <<>>

\* a tag unless it is empty
TagIf(text) == IF text # <<>> THEN << text >> ELSE <<>>

\* Classifier._generate_tags(record, result, brand); result.date_relevance is
\* still "" when it is called
_generate_tags(record, doc_type, category, brand) ==
    Dedup(TagIf(ReplaceChar(Lower(brand), " ", <<"-">>))
              \o TagIf(Lower(doc_type)) \o TagIf(Lower(category))
              \o TagIf(Lower(record.extension))
              \o YearTag(IF record.modified_at # <<>> THEN record.modified_at
                         ELSE record.created_at)
              \o CreTags(Lower(Slice(record.extracted_text, 0, 2000)))
              \o LocationTags(Lower(Slice(record.extracted_text, 0, 2000)))
              \o QuarterTag(record.modified_at))

\* the number of digits, lo to hi, that stand at pos before the character of
\* the set after, 0 when there is no such number
DigitsBefore(text, pos, lo, hi, after) ==
    IF \E n \in lo..hi : /\ pos + n <= Len(text)
                         /\ AllDigits(SubSeq(text, pos, pos + n - 1))
                         /\ text[pos + n] \in after
    THEN CHOOSE n \in lo..hi : /\ pos + n <= Len(text)
                               /\ AllDigits(SubSeq(text, pos, pos + n - 1))
                               /\ text[pos + n] \in after
    ELSE 0

\* exactly n digits stand at pos
DigitsAt(text, pos, n) ==
    pos + n - 1 <= Len(text) /\ AllDigits(SubSeq(text, pos, pos + n - 1))

\* (\d{1,2})/(\d{1,2})/(\d{4}) at pos: the date it gives, <<>> for no match
SlashDateAt(text, pos, a, b) ==
    IF a > 0 /\ b > 0 /\ DigitsAt(text, pos + a + 1 + b + 1, 4)
    THEN SubSeq(text, pos + a + b + 2, pos + a + b + 5) \o <<"-">>
             \o Format02d(DigitsToInt(SubSeq(text, pos, pos + a - 1))) \o <<"-">>
             \o Format02d(DigitsToInt(SubSeq(text, pos + a + 1, pos + a + b)))
    ELSE <<>>

SlashDate(text, pos) ==
    SlashDateAt(text, pos, DigitsBefore(text, pos, 1, 2, {"/"}),
                IF DigitsBefore(text, pos, 1, 2, {"/"}) = 0 THEN 0
                ELSE DigitsBefore(text, pos + DigitsBefore(text, pos, 1, 2, {"/"}) + 1, 1, 2,
                                  {"/"}))

\* the months whose name stands at pos
MonthsAt(text, pos) ==
    {m \in DOMAIN MonthNames : Slice(text, pos - 1, pos - 1 + Len(MonthNames[m])) = MonthNames[m]}

\* ,?\s+(\d{4}) at pos: the year, <<>> for no match
YearAfter(text, pos) ==
    IF /\ RunLength(text, IF At(text, pos) = "," THEN pos + 1 ELSE pos, WhiteChars) >= 1
       /\ DigitsAt(text, (IF At(text, pos) = "," THEN pos + 1 ELSE pos)
                         + RunLength(text, IF At(text, pos) = "," THEN pos + 1 ELSE pos,
                                     WhiteChars), 4)
    THEN SubSeq(text,
                (IF At(text, pos) = "," THEN pos + 1 ELSE pos)
                    + RunLength(text, IF At(text, pos) = "," THEN pos + 1 ELSE pos, WhiteChars),
                (IF At(text, pos) = "," THEN pos + 1 ELSE pos)
                    + RunLength(text, IF At(text, pos) = "," THEN pos + 1 ELSE pos, WhiteChars)
                    + 3)
    ELSE <<>>

\* \s+(\d{1,2}),?\s+(\d{4}) at pos, after the name of the month m: the longer
\* number of the day is tried first
MonthDateFrom(text, day, m) ==
    IF DigitsAt(text, day, 2) /\ YearAfter(text, day + 2) # <<>>
    THEN YearAfter(text, day + 2) \o <<"-">> \o Format02d(m) \o <<"-">>
             \o Format02d(DigitsToInt(SubSeq(text, day, day + 1)))
    ELSE IF DigitsAt(text, day, 1) /\ YearAfter(text, day + 1) # <<>>
    THEN YearAfter(text, day + 1) \o <<"-">> \o Format02d(m) \o <<"-">>
             \o Format02d(DigitsToInt(SubSeq(text, day, day)))
    ELSE <<>>

\* the pattern of the month names at pos
MonthDateOf(text, pos, m) ==
    IF RunLength(text, pos + Len(MonthNames[m]), WhiteChars) = 0 THEN <<>>
    ELSE MonthDateFrom(text,
                       pos + Len(MonthNames[m])
                           + RunLength(text, pos + Len(MonthNames[m]), WhiteChars), m)

MonthDate(text, pos) ==
    IF MonthsAt(text, pos) = {} THEN <<>>
    ELSE MonthDateOf(text, pos, CHOOSE m \in MonthsAt(text, pos) : TRUE)

\* (\d{4})-(\d{2})-(\d{2}) at pos
DashDate(text, pos) ==
    IF /\ DigitsAt(text, pos, 4) /\ At(text, pos + 4) = "-" /\ DigitsAt(text, pos + 5, 2)
       /\ At(text, pos + 7) = "-" /\ DigitsAt(text, pos + 8, 2)
    THEN SubSeq(text, pos, pos + 9)
    ELSE <<>>

\* the date of the k-th pattern of _detect_date_relevance at pos
DateOfPattern(k, text, pos) ==
    CASE k = 1 -> SlashDate(text, pos)
      [] k = 2 -> MonthDate(text, pos)
      [] k = 3 -> DashDate(text, pos)

\* the date of the first match of the k-th pattern, <<>> without a match
FirstDate(k, text) ==
    IF \E pos \in DOMAIN text : DateOfPattern(k, text, pos) # <<>>
    THEN DateOfPattern(k, text, MinOf({pos \in DOMAIN text : DateOfPattern(k, text, pos) # <<>>}))
    ELSE <<>>

\* Classifier._detect_date_relevance(record)
_detect_date_relevance(record) ==
    IF FirstDate(1, Slice(record.extracted_text, 0, 2000)) # <<>>
    THEN FirstDate(1, Slice(record.extracted_text, 0, 2000))
    ELSE IF FirstDate(2, Slice(record.extracted_text, 0, 2000)) # <<>>
    THEN FirstDate(2, Slice(record.extracted_text, 0, 2000))
    ELSE IF FirstDate(3, Slice(record.extracted_text, 0, 2000)) # <<>>
    THEN FirstDate(3, Slice(record.extracted_text, 0, 2000))
    ELSE Slice(record.modified_at, 0, 10)

\* _rule_based_classify from the brand and the document type on
RuleResult(record, brand, brand_factor, doc_type) ==
    ClassificationResult(
        _generate_tags(record, doc_type, ClassCategory(record, doc_type), brand),
        ClassCategory(record, doc_type), ClassSubcategory(doc_type),
        IF brand # <<>> THEN << brand >> ELSE <<>>,
        doc_type, _detect_date_relevance(record), ConfidentialityOf(record, brand),
        MinOf({100, brand_factor + TypeFactor(record) + OtherFactors(record, brand, doc_type)}))

\* Classifier._rule_based_classify(record)
_rule_based_classify(cfg, record) ==
    RuleResult(record, DetectedBrand(cfg, record), BrandFactor(cfg, record),
               DocumentType(record))

\* Classifier._apply_classification(record, result, classified_by): the record
\* after it, which upsert_file then writes
_apply_classification(record, res, classified_by, needs_review) ==
    [record EXCEPT !.tags = res.tags, !.category = res.category,
                   !.subcategory = res.subcategory, !.entities = res.entities,
                   !.document_type = res.document_type,
                   !.date_relevance = res.date_relevance,
                   !.confidentiality = res.confidentiality,
                   !.confidence = res.confidence, !.classified_by = classified_by,
                   !.needs_review = needs_review]

\* the answer of the language model: NoLlm when check_health finds none
NoLlm == [available |-> FALSE,
          result |-> ClassificationResult(<<>>, <<>>, <<>>, <<>>, <<>>, <<>>, <<>>, 0)]

Llm(res) == [available |-> TRUE, result |-> res]

\* steps 2 and 3 of classify: rule is the result of the rules, below the
\* threshold
ClassifyWithLlm(cfg, record, rule, llm) ==
    IF llm.available /\ llm.result.confidence > rule.confidence
    THEN _apply_classification(record, llm.result, "llm",
             record.needs_review \/ llm.result.confidence < cfg.agent_confidence_threshold)
    ELSE _apply_classification(record, rule, IF llm.available THEN "llm" ELSE "rule", TRUE)

\* classify from the result of the rules on
ClassifyFrom(cfg, record, rule, llm) ==
    IF rule.confidence >= cfg.agent_confidence_threshold
    THEN _apply_classification(record, rule, "rule", record.needs_review)
    ELSE ClassifyWithLlm(cfg, record, rule, llm)

\* Classifier.classify(record): the record after it
classify(cfg, record, llm) == ClassifyFrom(cfg, record, _rule_based_classify(cfg, record), llm)

(***************************************************************************)
(* The program: agent.py organize (scan, plan, execute, save the log)      *)
(* followed by a rollback of the saved log                                 *)
(***************************************************************************)
VARIABLES
    fs,        \* the filesystem
    config,    \* load_config() and the command line: constant during a run
    now,       \* the UTC clock, in ticks
    pc,        \* the position of the program
    files,     \* ScanResult.files
    plan,      \* the OrganizePlan
    i,         \* execute_plan: the index of the next action, renames first
    result,    \* the ExecutionResult
    log_path,  \* the path save_log returned, <<>> before
    rb,        \* the locals and the return value of rollback
    db,        \* the database of the database edition: the tables files and moves
    hist       \* history: what the properties below compare against

vars == <<fs, config, db, now, pc, files, plan, i, result, log_path, rb, hist>>

\* bounds of the model
MaxFiles == 3

MaxFaults == 1

\* the directory that is organized
Root == << <<"r">> >>

File_a_txt == <<"a",".","t","x","t">>

File_A_txt == <<"A",".","t","x","t">>

File_a_1_txt == <<"a","-","1",".","t","x","t">>

File_d_pdf == <<"d",".","p","d","f">>

\* the files a tree is made of: names that normalize to one name, a name that
\* is the first deduplication candidate, a file already in its category
\* folder, a file that holds the place of the category folder "Other"
CandidateFiles ==
    { Root \o <<File_a_txt>>,
      Root \o <<File_A_txt>>,
      Root \o <<File_a_1_txt>>,
      Root \o <<Cat_Documents, File_a_txt>>,
      Root \o <<Cat_Other>>,
      Root \o <<File_d_pdf>> }

Trees == {t \in SUBSET CandidateFiles : Cardinality(t) \in 1..MaxFiles}

Ancestors(p) == {SubSeq(p, 1, k) : k \in 0..(Len(p) - 1)}

Data(p) == [kind |-> "data", id |-> p]

TreeFs(t) ==
    [ files |-> [p \in t |-> Data(p)],
      dirs |-> {<<>>, Root} \cup UNION {Ancestors(p) : p \in t} ]

Cat_Documents_Text == Cat_Documents \o <<"/","T","e","x","t">>

\* a config.json that adds a category below an existing one
UserCategories ==
    DEFAULT_CATEGORIES \o << [category |-> Cat_Documents_Text, extensions |-> {Ext_txt}] >>

\* default_config() merged with the user's config.json, and the flags of the
\* command line
Configs ==
    [ categories : {DEFAULT_CATEGORIES, UserCategories},
      naming_rules : {NAMING_RULES, [NAMING_RULES EXCEPT !.lowercase = FALSE]},
      skip_directories : {SKIP_DIRECTORIES},
      skip_files : {SKIP_FILES},
      organize_into_folders : BOOLEAN,
      recursive : {TRUE},
      dry_run : BOOLEAN ]

NoRollback ==
    [ status |-> "none", actions |-> <<>>, todo |-> <<>>, reversed |-> 0,
      errors |-> <<>>, dirs_to_check |-> {} ]

\* the directories that may stand empty in the tree before the run
EmptyDirs == { Root \o <<Cat_Documents>> }

Init ==
    /\ \E t \in Trees, e \in SUBSET EmptyDirs :
           fs = [TreeFs(t) EXCEPT !.dirs = @ \cup e]
    /\ config \in Configs
    /\ now = 0
    /\ pc = "scan"
    /\ files = <<>>
    /\ plan = EmptyPlan
    /\ i = 1
    /\ result = NoResult
    /\ log_path = <<>>
    /\ rb = NoRollback
    /\ db = EmptyDb
    /\ hist = [ fs0 |-> fs, attempted |-> <<>>, exec_calls |-> 0, faults |-> 0,
                fs_saved |-> fs, fs_undo |-> fs, undone |-> <<>>, rb_calls |-> 0,
                removed |-> {}, log_edit |-> "none", deleted |-> {},
                failed |-> <<>>, missing |-> {}, fs_replayed |-> fs,
                saved |-> <<>>, plans |-> <<>>,
                normalized |-> <<>>, fo_normalized |-> <<>>, detected |-> <<>>,
                extracted |-> <<>>, analyzed |-> <<>>,
                dry_runs |-> <<>>, real_runs |-> <<>>, rollbacks |-> <<>> ]

\* scan_directory(root, categories, recursive, skip_dirs, skip_files)
ScanDirectory ==
    /\ pc = "scan"
    /\ \E order \in WalkOrders(ScannedPaths(DOMAIN fs.files, Root, config.recursive,
                                             OrDefault(config.skip_directories, SKIP_DIRECTORIES),
                                             OrDefault(config.skip_files, SKIP_FILES))) :
           files' = [k \in DOMAIN order |-> FileEntry(order[k], config.categories)]
    /\ pc' = "plan"
    /\ UNCHANGED <<fs, config, db, now, plan, i, result, log_path, rb, hist>>

\* cmd_organize: plan_organization, and nothing more when the plan is empty
PlanOrganization ==
    /\ pc = "plan"
    /\ plan' = plan_organization(files, Root, config.naming_rules,
                                 config.organize_into_folders)
    /\ pc' = IF total_actions(plan') = 0 THEN "done" ELSE "exec"
    /\ UNCHANGED <<fs, config, db, now, files, i, result, log_path, rb, hist>>

\* whether the operating system may refuse one more call
MayDeny(denied) == ~denied \/ (~config.dry_run /\ hist.faults < MaxFaults)

\* an executor that leaves its loops at the first failure
NextAction_abort(k, failed) == IF failed THEN total_actions(plan) + 1 ELSE k + 1

\* the index of the action execute_plan handles after the one at index k:
\* the loops go on whether or not the action failed
NextAction(k, failed) == k + 1

ExecuteStep(st, k) ==
    /\ fs' = st.fs
    /\ result' = st.result
    /\ i' = NextAction(k, Len(st.result.errors) > Len(result.errors))
    /\ UNCHANGED <<config, db, now, pc, files, plan, log_path, rb>>

\* execute_plan: the next rename
ExecuteRename ==
    /\ pc = "exec"
    /\ i <= Len(plan.renames)
    /\ \E denied \in BOOLEAN :
           /\ MayDeny(denied)
           /\ LET st == ExecuteRenameStep([fs |-> fs, result |-> result,
                                           calls |-> hist.exec_calls],
                                          plan.renames[i], config.dry_run, denied)
              IN  /\ ExecuteStep(st, i)
                  /\ hist' = [hist EXCEPT
                                 !.attempted = Append(@, i),
                                 !.failed = IF Len(st.result.errors) > Len(result.errors)
                                            THEN Append(@, i) ELSE @,
                                 !.exec_calls = st.calls,
                                 !.faults = @ + (IF denied THEN 1 ELSE 0)]

\* execute_plan: the next move, once the renames are through
ExecuteMove ==
    /\ pc = "exec"
    /\ i > Len(plan.renames)
    /\ i <= total_actions(plan)
    /\ \E denied \in BOOLEAN :
           /\ MayDeny(denied)
           /\ LET st == ExecuteMoveStep([fs |-> fs, result |-> result,
                                         calls |-> hist.exec_calls],
                                        plan.moves[i - Len(plan.renames)],
                                        config.dry_run, denied)
              IN  /\ ExecuteStep(st, i)
                  /\ hist' = [hist EXCEPT
                                 !.attempted = Append(@, i),
                                 !.failed = IF Len(st.result.errors) > Len(result.errors)
                                            THEN Append(@, i) ELSE @,
                                 !.exec_calls = st.calls,
                                 !.faults = @ + (IF denied THEN 1 ELSE 0)]

\* execute_plan returns
ExecuteReturn ==
    /\ pc = "exec"
    /\ i > total_actions(plan)
    /\ pc' = "executed"
    /\ UNCHANGED <<fs, config, db, now, files, plan, i, result, log_path, rb, hist>>

\* save_log(target, exec_result.log_entries, dry_run)
SaveLog ==
    /\ pc = "executed"
    /\ LET saved == save_log(fs, Root, result.log_entries, config.dry_run, now)
       IN  /\ fs' = saved.fs
           /\ log_path' = saved.path
           /\ hist' = [hist EXCEPT
                          !.fs_saved = saved.fs,
                          !.saved = Append(@, [path |-> saved.path,
                                               content |-> saved.fs.files[saved.path]])]
    /\ pc' = "saved"
    /\ UNCHANGED <<config, db, now, files, plan, i, result, rb>>

\* the paths the saved log names as destinations
LoggedTargets ==
    { PathOf(result.log_entries[k].to) : k \in DOMAIN result.log_entries }

\* between the run and its undo the user deletes a file the run has placed
UserDeletesFile ==
    /\ pc = "saved"
    /\ ~config.dry_run
    /\ hist.deleted = {}
    /\ \E p \in LoggedTargets \cap DOMAIN fs.files :
           /\ fs' = [fs EXCEPT !.files = WithoutFile(@, p)]
           /\ hist' = [hist EXCEPT !.deleted = {p}]
    /\ UNCHANGED <<config, db, now, pc, files, plan, i, result, log_path, rb>>

WithoutKey(d, key) == [k \in DOMAIN d \ {key} |-> d[k]]

\* what can become of a log file between the run and its undo: cut short so
\* that it is no JSON document, or a JSON document that lacks "actions", or
\* the "to" or the "from" of one entry
DamagedLogs(payload) ==
    { [kind |-> "text"], JsonText(WithoutKey(payload, "actions")) }
    \cup { JsonText([payload EXCEPT !.actions[k] = WithoutKey(@, key)]) :
               k \in DOMAIN payload.actions, key \in {"to", "from"} }

\* between the run and its undo the log file is damaged
LogIsDamaged ==
    /\ pc = "saved"
    /\ hist.log_edit = "none"
    /\ \E damaged \in DamagedLogs(fs.files[log_path].value) :
           /\ fs' = [fs EXCEPT !.files[log_path] = damaged]
           /\ hist' = [hist EXCEPT !.log_edit =
                          IF damaged.kind = "text" THEN "no json"
                          ELSE IF "actions" \notin DOMAIN damaged.value THEN "no actions"
                          ELSE "no path"]
    /\ UNCHANGED <<config, db, now, pc, files, plan, i, result, log_path, rb>>

\* rollback(log_path) up to its loop: load_log raises, or the log is a dry-run
\* log, or the loop starts
RollbackBegin ==
    /\ pc = "saved"
    /\ LET loaded == load_log(fs, log_path)
           actions == IF "actions" \in DOMAIN loaded.data
                      THEN loaded.data.actions ELSE <<>>
       IN  IF ~loaded.ok
           THEN /\ rb' = [rb EXCEPT !.status = "raised"]
                /\ pc' = "done"
           ELSE IF IsDryRunLog(loaded.data)
           THEN /\ rb' = [rb EXCEPT !.status = "skipped"]
                /\ pc' = "done"
           ELSE /\ rb' = [rb EXCEPT !.status = "running", !.actions = actions,
                                    !.todo = ReplayOrder(Len(actions))]
                /\ pc' = "rollback"
    /\ hist' = [hist EXCEPT !.fs_undo = fs]
    /\ UNCHANGED <<fs, config, db, now, files, plan, i, result, log_path>>

\* the entry names both paths and no file or directory is at its "to"
SourceIsMissing(f, action) ==
    /\ "to" \in DOMAIN action /\ action.to # <<>>
    /\ "from" \in DOMAIN action /\ action.from # <<>>
    /\ ~PathExists(f, PathOf(action.to))

\* rollback: the next action of the loop
RollbackStep ==
    /\ pc = "rollback"
    /\ rb.todo # <<>>
    /\ \E denied \in BOOLEAN :
           /\ ~denied \/ hist.faults < MaxFaults
           /\ LET st == RollbackStepOn([fs |-> fs, reversed |-> rb.reversed,
                                        errors |-> rb.errors, calls |-> hist.rb_calls],
                                       rb.actions[Head(rb.todo)], denied)
              IN  /\ fs' = st.fs
                  /\ rb' = [rb EXCEPT !.reversed = st.reversed, !.errors = st.errors,
                                      !.todo = Tail(@)]
                  /\ hist' = [hist EXCEPT
                                 !.undone = Append(@, Head(rb.todo)),
                                 !.missing = IF SourceIsMissing(fs, rb.actions[Head(rb.todo)])
                                             THEN @ \cup {Head(rb.todo)} ELSE @,
                                 !.rb_calls = st.calls,
                                          !.faults = @ + (IF denied THEN 1 ELSE 0)]
    /\ UNCHANGED <<config, db, now, pc, files, plan, i, result, log_path>>

\* rollback: the loop is through and _cleanup_empty_dirs collects its set
CleanupBegin ==
    /\ pc = "rollback"
    /\ rb.todo = <<>>
    /\ LET check == DirsToCheck(rb.actions)
       IN  IF check.ok
           THEN /\ rb' = [rb EXCEPT !.dirs_to_check = check.dirs]
                /\ pc' = "cleanup"
           ELSE /\ rb' = [rb EXCEPT !.status = "raised"]
                /\ pc' = "done"
    /\ hist' = [hist EXCEPT !.fs_replayed = fs]
    /\ UNCHANGED <<fs, config, db, now, files, plan, i, result, log_path>>

\* _cleanup_empty_dirs: the next directory, in the iteration order of a set
CleanupStep ==
    /\ pc = "cleanup"
    /\ \E d \in rb.dirs_to_check :
           /\ fs' = CleanupDir(fs, d)
           /\ rb' = [rb EXCEPT !.dirs_to_check = @ \ {d}]
           /\ hist' = [hist EXCEPT
                          !.removed = IF fs' # fs THEN @ \cup {d} ELSE @,
                          !.rb_calls = @ + (IF fs' # fs THEN 1 ELSE 0)]
    /\ UNCHANGED <<config, db, now, pc, files, plan, i, result, log_path>>

\* rollback returns its summary
RollbackReturn ==
    /\ pc = "cleanup"
    /\ rb.dirs_to_check = {}
    /\ rb' = [rb EXCEPT !.status = "completed"]
    /\ pc' = "done"
    /\ UNCHANGED <<fs, config, db, now, files, plan, i, result, log_path, hist>>

Next ==
    \/ ScanDirectory
    \/ PlanOrganization
    \/ ExecuteRename
    \/ ExecuteMove
    \/ ExecuteReturn
    \/ SaveLog
    \/ UserDeletesFile
    \/ LogIsDamaged
    \/ RollbackBegin
    \/ RollbackStep
    \/ CleanupBegin
    \/ CleanupStep
    \/ RollbackReturn

Spec == Init /\ [][Next]_vars

(***************************************************************************)
(* save_log called again and again on one root, as the runs of agent.py    *)
(* and autorun.py do, while the clock goes on                              *)
(***************************************************************************)
MaxSaves == 3

MaxClock == 4

\* the lists of log entries the calls are made with
LogBatches ==
    { <<>>,
      << RenameEntry([original |-> Root \o <<File_A_txt>>,
                      new_path |-> Root \o <<File_a_txt>>], FALSE) >>,
      << MoveEntry([original |-> Root \o <<File_d_pdf>>,
                    destination |-> Root \o <<Cat_Documents, File_d_pdf>>,
                    category |-> Cat_Documents], FALSE) >> }

InitLogs ==
    /\ fs = TreeFs({Root \o <<File_a_txt>>})
    /\ config \in {c \in Configs : c.categories = DEFAULT_CATEGORIES
                                    /\ c.naming_rules = NAMING_RULES
                                    /\ c.organize_into_folders /\ ~c.dry_run}
    /\ now = 0
    /\ pc = "logs"
    /\ files = <<>>
    /\ plan = EmptyPlan
    /\ i = 1
    /\ result = NoResult
    /\ log_path = <<>>
    /\ rb = NoRollback
    /\ db = EmptyDb
    /\ hist = [ fs0 |-> fs, attempted |-> <<>>, exec_calls |-> 0, faults |-> 0,
                fs_saved |-> fs, fs_undo |-> fs, undone |-> <<>>, rb_calls |-> 0,
                removed |-> {}, log_edit |-> "none", deleted |-> {},
                failed |-> <<>>, missing |-> {}, fs_replayed |-> fs,
                saved |-> <<>>, plans |-> <<>>,
                normalized |-> <<>>, fo_normalized |-> <<>>, detected |-> <<>>,
                extracted |-> <<>>, analyzed |-> <<>>,
                dry_runs |-> <<>>, real_runs |-> <<>>, rollbacks |-> <<>> ]

\* time passes between two calls
ClockTick ==
    /\ pc = "logs"
    /\ now < MaxClock
    /\ now' = now + 1
    /\ UNCHANGED <<fs, config, db, pc, files, plan, i, result, log_path, rb, hist>>

\* save_log(root, log_entries, dry_run): the call reads the clock at tick now
\* and returns at a later tick
SaveLogAgain ==
    /\ pc = "logs"
    /\ Len(hist.saved) < MaxSaves
    /\ now < MaxClock
    /\ \E log_entries \in LogBatches, dry_run \in BOOLEAN :
           LET saved == save_log(fs, Root, log_entries, dry_run, now)
           IN  /\ fs' = saved.fs
               /\ log_path' = saved.path
               /\ hist' = [hist EXCEPT
                              !.fs_saved = saved.fs,
                              !.saved = Append(@, [path |-> saved.path,
                                                   content |-> saved.fs.files[saved.path]])]
    /\ now' = now + 1
    /\ UNCHANGED <<config, db, pc, files, plan, i, result, rb>>

NextLogs ==
    \/ ClockTick
    \/ SaveLogAgain

SpecLogs == InitLogs /\ [][NextLogs]_vars

(***************************************************************************)
(* plan_organization of file_organizer.py called again with the arguments  *)
(* of the first call, while the files are touched or removed and days pass *)
(***************************************************************************)
MaxPlans == 2

MaxDays == 2

MaxPlanned == 2

File_uber_pdf == <<"u","b","e","r","-","r","i","d","e",".","p","d","f">>

File_dated_txt == <<"2","0","2","4","-","0","1","-","0","5","_","a",".","t","x","t">>

PlannedFiles ==
    { Root \o <<File_a_txt>>, Root \o <<File_uber_pdf>>, Root \o <<File_dated_txt>> }

\* a file last modified at tick t
DataAt(p, t) == [kind |-> "data", id |-> p, mtime |-> t]

InitPlans ==
    /\ \E t \in {u \in SUBSET PlannedFiles : Cardinality(u) \in 1..MaxPlanned} :
           /\ fs = [TreeFs(t) EXCEPT !.files = [p \in t |-> DataAt(p, 0)]]
           /\ \E order \in WalkOrders(t) :
                  files = [k \in DOMAIN order |-> fo_FileEntry(order[k], DEFAULT_CATEGORIES)]
    /\ config \in {c \in Configs : c.categories = DEFAULT_CATEGORIES /\ ~c.dry_run}
    /\ now = 0
    /\ pc = "plans"
    /\ plan = EmptyPlan
    /\ i = 1
    /\ result = NoResult
    /\ log_path = <<>>
    /\ rb = NoRollback
    /\ db = EmptyDb
    /\ hist = [ fs0 |-> fs, attempted |-> <<>>, exec_calls |-> 0, faults |-> 0,
                fs_saved |-> fs, fs_undo |-> fs, undone |-> <<>>, rb_calls |-> 0,
                removed |-> {}, log_edit |-> "none", deleted |-> {},
                failed |-> <<>>, missing |-> {}, fs_replayed |-> fs,
                saved |-> <<>>, plans |-> <<>>,
                normalized |-> <<>>, fo_normalized |-> <<>>, detected |-> <<>>,
                extracted |-> <<>>, analyzed |-> <<>>,
                dry_runs |-> <<>>, real_runs |-> <<>>, rollbacks |-> <<>> ]

DayPasses ==
    /\ pc = "plans"
    /\ now < MaxDays * TicksPerDay
    /\ now' = now + TicksPerDay
    /\ UNCHANGED <<fs, config, db, pc, files, plan, i, result, log_path, rb, hist>>

\* another program writes to a file: its modification time becomes the clock's
TouchFile ==
    /\ pc = "plans"
    /\ \E p \in DOMAIN fs.files :
           /\ fs.files[p].mtime # now
           /\ fs' = [fs EXCEPT !.files[p].mtime = now]
    /\ UNCHANGED <<config, db, now, pc, files, plan, i, result, log_path, rb, hist>>

\* another program removes a file
RemoveFile ==
    /\ pc = "plans"
    /\ \E p \in DOMAIN fs.files : fs' = [fs EXCEPT !.files = WithoutFile(@, p)]
    /\ UNCHANGED <<config, db, now, pc, files, plan, i, result, log_path, rb, hist>>

\* plan_organization(files, root, rename_rules, organize_into_folders) with
\* the descriptors, rules and flag of the first call
PlanAgain ==
    /\ pc = "plans"
    /\ Len(hist.plans) < MaxPlans
    /\ plan' = fo_plan_organization(files, Root, config.naming_rules,
                                    config.organize_into_folders, fs, now)
    /\ hist' = [hist EXCEPT !.plans = Append(@, plan')]
    /\ UNCHANGED <<fs, config, db, now, pc, files, i, result, log_path, rb>>

NextPlans ==
    \/ DayPasses
    \/ TouchFile
    \/ RemoveFile
    \/ PlanAgain

SpecPlans == InitPlans /\ [][NextPlans]_vars

(***************************************************************************)
(* normalize_filename applied to a name, then to the stem and the suffix   *)
(* of its own result, with the same rules and no filepath                  *)
(***************************************************************************)
MaxNameLen == 3

MaxNormalize == 2

NameChars == {"c", "o", "n", "p", "v", "1", " "}

RECURSIVE NamesUpTo(_)
\* the stems of at most n characters
NamesUpTo(n) ==
    IF n = 0 THEN {<<>>}
    ELSE NamesUpTo(n - 1) \cup {Append(s, c) : s \in NamesUpTo(n - 1), c \in NameChars}

InitNormalize ==
    /\ \E stem \in NamesUpTo(MaxNameLen) \ {<<>>} :
           /\ fs = TreeFs({Root \o <<stem \o Ext_txt>>})
           /\ files = << FileEntry(Root \o <<stem \o Ext_txt>>, DEFAULT_CATEGORIES) >>
    /\ config \in {c \in Configs : c.categories = DEFAULT_CATEGORIES /\ ~c.dry_run
                                    /\ ~c.organize_into_folders}
    /\ now = 0
    /\ pc = "normalize"
    /\ plan = EmptyPlan
    /\ i = 1
    /\ result = NoResult
    /\ log_path = <<>>
    /\ rb = NoRollback
    /\ db = EmptyDb
    /\ hist = [ fs0 |-> fs, attempted |-> <<>>, exec_calls |-> 0, faults |-> 0,
                fs_saved |-> fs, fs_undo |-> fs, undone |-> <<>>, rb_calls |-> 0,
                removed |-> {}, log_edit |-> "none", deleted |-> {},
                failed |-> <<>>, missing |-> {}, fs_replayed |-> fs,
                saved |-> <<>>, plans |-> <<>>,
                normalized |-> <<>>, fo_normalized |-> <<>>, detected |-> <<>>,
                extracted |-> <<>>, analyzed |-> <<>>,
                dry_runs |-> <<>>, real_runs |-> <<>>, rollbacks |-> <<>> ]

\* the name to normalize: the file's at first, the last result afterwards
NextName(results) == IF results = <<>> THEN files[1].name ELSE results[Len(results)]

\* normalize_filename(stem, suffix, rules) of renamer.py
Normalize ==
    /\ pc = "normalize"
    /\ Len(hist.normalized) < MaxNormalize
    /\ hist' = [hist EXCEPT !.normalized =
                   Append(@, normalize_filename(PathStem(NextName(@)),
                                                PathSuffix(NextName(@)),
                                                config.naming_rules, <<>>, <<>>))]
    /\ UNCHANGED <<fs, config, db, now, pc, files, plan, i, result, log_path, rb>>

\* normalize_filename(stem, suffix, rules) of file_organizer.py
fo_Normalize ==
    /\ pc = "normalize"
    /\ Len(hist.fo_normalized) < MaxNormalize
    /\ hist' = [hist EXCEPT !.fo_normalized =
                   Append(@, fo_normalize_filename(PathStem(NextName(@)),
                                                   PathSuffix(NextName(@)),
                                                   config.naming_rules, <<>>, <<>>))]
    /\ UNCHANGED <<fs, config, db, now, pc, files, plan, i, result, log_path, rb>>

NextNormalize ==
    \/ Normalize
    \/ fo_Normalize

SpecNormalize == InitNormalize /\ [][NextNormalize]_vars

(***************************************************************************)
(* content_detector.py applied to one file: detect_file_type, the          *)
(* metadata extractors and analyze_file                                    *)
(***************************************************************************)
MaxCalls == 2

\* s[:k] for every k
Prefixes(s) == {SubSeq(s, 1, k) : k \in 0..Len(s)}

\* RIFF files and their truncations: the chunk size, the sub type, two bytes
\* of the first chunk
RiffFiles ==
    UNION { Prefixes(Magic_RIFF \o <<36, 0, 0, 0>> \o Encode(sub_type) \o Encode(<<"f","m">>)) :
              sub_type \in { <<"W","A","V","E">>, <<"A","V","I"," ">>,
                             <<"W","E","B","P">>, <<"R","M","I","D">> } }

\* a file of the given bytes that holds no archive
FileOf(bytes) == [kind |-> "data", bytes |-> bytes, archive |-> NoArchive]

\* an MP3 file and its truncations: the ID3v2.3 header and the frame TIT2 of
\* the title "A"
Id3Files ==
    Prefixes(Encode(<<"I","D","3">>) \o <<3, 0, 0, 0, 0, 0, 12>>
                 \o Encode(<<"T","I","T","2">>) \o <<0, 0, 0, 2, 0, 0, 0, 65>>)

\* the EXIF block of the camera model "X1"
ExifBlock ==
    Encode(<<"E","x","i","f">>) \o <<0, 0>> \o Encode(<<"I","I","*">>) \o <<0, 8, 0, 0, 0>>
        \o <<1, 0>> \o <<16, 1, 2, 0, 3, 0, 0, 0>> \o Encode(<<"X","1">>) \o <<0, 0>>

\* JPEG files: the segment APP1 with the EXIF block, whole and cut short, and
\* with the lengths 0, 1 and 2
JpegFiles ==
    { <<255, 216, 255, 225, 0, Len(ExifBlock) + 2>> \o ExifBlock,
      <<255, 216, 255, 225, 0, Len(ExifBlock) + 2>> \o SubSeq(ExifBlock, 1, 16),
      <<255, 216, 255, 225, 0, 0>>, <<255, 216, 255, 225, 0, 1>>,
      <<255, 216, 255, 225, 0, 2>>, <<255, 216, 255, 225, 0>> }

\* a PDF file with a title, whole and cut short
PdfFiles ==
    { Encode(<<"%","P","D","F"," ","/","T","i","t","l","e"," ","(","P","l","a","n"," ","B",")">>),
      Encode(<<"%","P","D","F"," ","/","T","i","t","l","e"," ","(","P","l">>) }

\* the core properties of a document of the title "Plan B"
CoreXml == [ok |-> TRUE, elements |-> [k \in {"dc:title"} |-> <<"P","l","a","n"," ","B">>]]

\* the properties of a document of the application "W"
AppXml == [ok |-> TRUE, elements |-> [k \in {"ep:Application"} |-> <<"W">>]]

PlainXml == [ok |-> TRUE, elements |-> <<>>]

\* the members of a Word document where reading the content types, the core
\* properties and the other properties raises the given exceptions
DocxArchive(types_fault, core_fault, app_fault) ==
    Archive(<< Member(Name_ContentTypes, Text_wordprocessingml, PlainXml, types_fault),
               Member(Name_core_xml, <<>>, CoreXml, core_fault),
               Member(Name_app_xml, <<>>, AppXml, app_fault) >>)

\* the members of an OpenDocument text where reading the member mimetype raises
\* the given exception
OdtArchive(fault) ==
    Archive(<< Member(Name_mimetype,
                      <<"v","n","d",".">> \o Text_opendocument \o <<"t","e","x","t","U+10">>,
                      NotXml, fault),
               Member(Name_core_xml, <<>>, NotXml, "") >>)

\* the archives of the ZIP files: no archive at all, a plain archive, Word
\* documents and OpenDocument texts with at most one member that cannot be read
Archives ==
    {NoArchive, Archive(<< Member(<<"a">>, <<>>, NotXml, "") >>)}
        \cup {DocxArchive(fault, "", "") : fault \in ReadFaults \cup {""}}
        \cup {DocxArchive("", fault, "") : fault \in ReadFaults}
        \cup {DocxArchive("", "", fault) : fault \in ReadFaults}
        \cup {OdtArchive(fault) : fault \in ReadFaults \cup {""}}

\* a ZIP file: the signature of the first local file header and the archive
ZipOf(archive) == [kind |-> "data", bytes |-> Encode(<<"P","K">>) \o <<3, 4, 20, 0>>,
                   archive |-> archive]

\* ISO base media files: a box length, the tag ftyp at the offset 4, 8 or 32,
\* a brand and the minor version
FtypBrands == { Encode(<<"M","4","A"," ">>), Encode(<<"q","t"," "," ">>), Encode(<<"i","s","o","m">>) }

FtypFiles ==
    { [k \in 1..(offset - 1) |-> 0] \o <<box_length>> \o Magic_ftyp \o ftyp_brand \o <<0, 0, 2, 0>> :
          offset \in {4, 8, 32}, box_length \in {20, 28}, ftyp_brand \in FtypBrands }

AnalyzedContents ==
    {FileOf(b) : b \in RiffFiles \cup Id3Files \cup JpegFiles \cup PdfFiles \cup FtypFiles}
        \cup {ZipOf(archive) : archive \in Archives}

File_a_bin == <<"a",".","b","i","n">>

File_a_docx == <<"a",".","d","o","c","x">>

InitAnalyze ==
    /\ \E c \in AnalyzedContents, name \in {File_a_bin, File_a_docx} :
           fs = [TreeFs({Root \o <<name>>}) EXCEPT !.files[Root \o <<name>>] = c]
    /\ config \in {c \in Configs : c.categories = DEFAULT_CATEGORIES /\ ~c.dry_run
                                    /\ c.organize_into_folders
                                    /\ c.naming_rules = NAMING_RULES}
    /\ now = 0
    /\ pc = "analyze"
    /\ files = <<>>
    /\ plan = EmptyPlan
    /\ i = 1
    /\ result = NoResult
    /\ log_path = <<>>
    /\ rb = NoRollback
    /\ db = EmptyDb
    /\ hist = [ fs0 |-> fs, attempted |-> <<>>, exec_calls |-> 0, faults |-> 0,
                fs_saved |-> fs, fs_undo |-> fs, undone |-> <<>>, rb_calls |-> 0,
                removed |-> {}, log_edit |-> "none", deleted |-> {},
                failed |-> <<>>, missing |-> {}, fs_replayed |-> fs,
                saved |-> <<>>, plans |-> <<>>,
                normalized |-> <<>>, fo_normalized |-> <<>>, detected |-> <<>>,
                extracted |-> <<>>, analyzed |-> <<>>,
                dry_runs |-> <<>>, real_runs |-> <<>>, rollbacks |-> <<>> ]

\* the calls made so far
Calls == Len(hist.detected) + Len(hist.extracted) + Len(hist.analyzed)

\* detect_file_type(filepath); the operating system may refuse to open the file
DetectFileType ==
    /\ pc = "analyze"
    /\ Calls < MaxCalls
    /\ \E filepath \in DOMAIN fs.files, denied \in BOOLEAN :
           hist' = [hist EXCEPT !.detected =
                       Append(@, [filepath |-> filepath, denied |-> denied,
                                  sig |-> detect_file_type(fs, filepath, denied)])]
    /\ UNCHANGED <<fs, config, db, now, pc, files, plan, i, result, log_path, rb>>

Extractors == {"pdf", "jpeg", "id3", "office"}

\* the call of one of the four metadata extractors
ExtractWith(extractor, f, filepath, denied) ==
    CASE extractor = "pdf" -> extract_pdf_metadata(f, filepath, denied)
      [] extractor = "jpeg" -> extract_jpeg_metadata(f, filepath, denied)
      [] extractor = "id3" -> extract_id3_metadata(f, filepath, denied)
      [] extractor = "office" -> extract_office_metadata(f, filepath, denied)

\* a caller applies one of the metadata extractors to the file
ExtractMetadata ==
    /\ pc = "analyze"
    /\ Calls < MaxCalls
    /\ \E filepath \in DOMAIN fs.files, denied \in BOOLEAN, extractor \in Extractors :
           hist' = [hist EXCEPT !.extracted =
                       Append(@, [extractor |-> extractor, filepath |-> filepath,
                                  denied |-> denied,
                                  outcome |-> ExtractWith(extractor, fs, filepath, denied)])]
    /\ UNCHANGED <<fs, config, db, now, pc, files, plan, i, result, log_path, rb>>

\* analyze_file(filepath)
AnalyzeFile ==
    /\ pc = "analyze"
    /\ Calls < MaxCalls
    /\ \E filepath \in DOMAIN fs.files, denied \in BOOLEAN :
           hist' = [hist EXCEPT !.analyzed =
                       Append(@, [filepath |-> filepath, denied |-> denied,
                                  outcome |-> analyze_file(fs, filepath, denied)])]
    /\ UNCHANGED <<fs, config, db, now, pc, files, plan, i, result, log_path, rb>>

NextAnalyze ==
    \/ DetectFileType
    \/ ExtractMetadata
    \/ AnalyzeFile

SpecAnalyze == InitAnalyze /\ [][NextAnalyze]_vars

(***************************************************************************)
(* The database edition: the scanner has written the rows of the files,    *)
(* the classifier fills them in and the organizer moves the files, in dry  *)
(* runs and in real runs.  hist.dry_runs and hist.real_runs keep, for      *)
(* every call of organize, the filesystem it started on, the records it    *)
(* was given and the MoveRecords it returned.                              *)
(***************************************************************************)
MaxRows == 2

MaxRuns == 2

Dir_Organized == <<"O","r","g","a","n","i","z","e","d">>

Name_marriott_lease == <<"m","a","r","r","i","o","t","t"," ","l","e","a","s","e",".","p","d","f">>

Text_date == <<"3","/","7","/","2","0","2","4">>

\* the files the scanner has found, with their extracted text and their time
\* of modification: two leases of one date and one company in two folders, and
\* a file the rules know nothing about
ScannedFiles ==
    << [ file_path |-> Root \o << <<"i","n","1">>, Name_marriott_lease >>,
         extracted_text |-> Text_date,
         modified_at |-> <<"2","0","2","5","-","0","3","-","2","2","T","1","4",":","3","0",":","0","0">> ],
       [ file_path |-> Root \o << <<"i","n","2">>, Name_marriott_lease >>,
         extracted_text |-> Text_date,
         modified_at |-> <<"2","0","2","5","-","0","3","-","2","3","T","0","9",":","0","0",":","0","0">> ],
       [ file_path |-> Root \o << <<"i","n","1">>, <<"m","y","s","t","e","r","y",".","p","d","f">> >>,
         extracted_text |-> <<>>,
         modified_at |-> <<"2","0","2","4","-","0","1","-","0","5","T","0","8",":","0","0",":","0","0">> ] >>

RECURSIVE Scanned(_, _)
\* the database after the scanner has written the rows of the chosen files
Scanned(chosen, k) ==
    IF k = 0 THEN EmptyDb
    ELSE IF k \in chosen
    THEN upsert_file(Scanned(chosen, k - 1),
                     FileRecord(0, ScannedFiles[k].file_path, ScannedFiles[k].extracted_text,
                                ScannedFiles[k].modified_at))
    ELSE Scanned(chosen, k - 1)

\* the answers of the language model: a full classification and one without
\* a document type
LlmResults ==
    { ClassificationResult(<< <<"i","n","v","o","i","c","e">> >>,
                           <<"F","i","n","a","n","c","e">>, <<"I","n","v","o","i","c","e","s">>,
                           << DEFAULT_BRANDS[2] >>, <<"I","n","v","o","i","c","e">>,
                           <<"2","0","2","4","-","0","1","-","0","2">>,
                           <<"g","e","n","e","r","a","l">>, 90),
      ClassificationResult(<<>>, <<"L","e","g","a","l">>, <<>>, <<>>, <<>>, <<>>,
                           <<"g","e","n","e","r","a","l">>, 80) }

\* the paths at which a run of 65 characters and more is too long, and the
\* default
PathLengths == {65, 260}

InitDb ==
    /\ \E chosen \in SUBSET (DOMAIN ScannedFiles) :
           /\ Cardinality(chosen) \in 1..MaxRows
           /\ fs = TreeFs({ScannedFiles[k].file_path : k \in chosen})
           /\ db = Scanned(chosen, Len(ScannedFiles))
    /\ \E max_path_length \in PathLengths :
           config = Config(Root \o <<Dir_Organized>>, max_path_length)
    /\ now = 0
    /\ pc = "database"
    /\ files = <<>>
    /\ plan = EmptyPlan
    /\ i = 1
    /\ result = NoResult
    /\ log_path = <<>>
    /\ rb = NoRollback
    /\ hist = [ fs0 |-> fs, attempted |-> <<>>, exec_calls |-> 0, faults |-> 0,
                fs_saved |-> fs, fs_undo |-> fs, undone |-> <<>>, rb_calls |-> 0,
                removed |-> {}, log_edit |-> "none", deleted |-> {},
                failed |-> <<>>, missing |-> {}, fs_replayed |-> fs,
                saved |-> <<>>, plans |-> <<>>,
                normalized |-> <<>>, fo_normalized |-> <<>>, detected |-> <<>>,
                extracted |-> <<>>, analyzed |-> <<>>,
                dry_runs |-> <<>>, real_runs |-> <<>>, rollbacks |-> <<>> ]

\* Classifier.classify(record) of a row the classifier has not seen, with or
\* without a language model
Classify ==
    /\ pc = "database"
    /\ \E k \in DOMAIN db.files, llm \in {NoLlm} \cup {Llm(res) : res \in LlmResults} :
           /\ db.files[k].classified_by = ""
           /\ db' = upsert_file(db, classify(config, db.files[k], llm))
    /\ UNCHANGED <<fs, config, now, pc, files, plan, i, result, log_path, rb, hist>>

\* the calls of organize made so far
Runs == Len(hist.dry_runs) + Len(hist.real_runs)

\* what hist keeps of a call of organize
RunOf(f, records, st) == [fs |-> f, records |-> records, moves |-> st.moves]

\* the state after organize has returned st
Organized_dry(records, st) ==
    /\ fs' = st.fs
    /\ db' = st.db
    /\ hist' = [hist EXCEPT !.dry_runs = Append(@, RunOf(fs, records, st))]

Organized_real(records, st) ==
    /\ fs' = st.fs
    /\ db' = st.db
    /\ hist' = [hist EXCEPT !.real_runs = Append(@, RunOf(fs, records, st))]

\* Organizer.organize(dry_run=True) on the rows of the database
OrganizeDry ==
    /\ pc = "database"
    /\ Runs < MaxRuns
    /\ \E order \in RowOrders(db) :
           Organized_dry(get_all_files(db, order),
                         organize(fs, db, config, get_all_files(db, order), TRUE, now))
    /\ UNCHANGED <<config, now, pc, files, plan, i, result, log_path, rb>>

\* Organizer.organize(dry_run=False) on the rows of the database
OrganizeReal ==
    /\ pc = "database"
    /\ Runs < MaxRuns
    /\ \E order \in RowOrders(db) :
           Organized_real(get_all_files(db, order),
                          organize(fs, db, config, get_all_files(db, order), FALSE, now))
    /\ UNCHANGED <<config, now, pc, files, plan, i, result, log_path, rb>>

NextDb ==
    \/ Classify
    \/ OrganizeDry
    \/ OrganizeReal

SpecDb == InitDb /\ [][NextDb]_vars

(***************************************************************************)
(* The program: agent.py organize over a folder of photos and notes, up to *)
(* the return of execute_plan                                              *)
(***************************************************************************)
File_IMG_vacation_JPG == <<"I","M","G","_","2","0","2","4","-","0","1","-","1","5","_","v","a","c","a","t","i","o","n",".","J","P","G">>

File_vacation_jpg == <<"2","0","2","4","-","0","1","-","1","5","_","v","a","c","a","t","i","o","n",".","j","p","g">>

File_trip_jpg == <<"t","r","i","p",".","j","p","g">>

File_memo_txt == <<"m","e","m","o","_","2","0","2","4","-","0","1","-","1","5",".","t","x","t">>

\* photos with and without a date in the name, a note with a date
MediaFiles ==
    { Root \o <<File_IMG_vacation_JPG>>,
      Root \o <<File_vacation_jpg>>,
      Root \o <<File_trip_jpg>>,
      Root \o <<File_memo_txt>> }

MediaTrees == {t \in SUBSET MediaFiles : Cardinality(t) \in 1..MaxFiles}

InitMedia ==
    /\ \E t \in MediaTrees : fs = TreeFs(t)
    /\ config \in Configs
    /\ now = 0
    /\ pc = "scan"
    /\ files = <<>>
    /\ plan = EmptyPlan
    /\ i = 1
    /\ result = NoResult
    /\ log_path = <<>>
    /\ rb = NoRollback
    /\ db = EmptyDb
    /\ hist = [ fs0 |-> fs, attempted |-> <<>>, exec_calls |-> 0, faults |-> 0,
                fs_saved |-> fs, fs_undo |-> fs, undone |-> <<>>, rb_calls |-> 0,
                removed |-> {}, log_edit |-> "none", deleted |-> {},
                failed |-> <<>>, missing |-> {}, fs_replayed |-> fs,
                saved |-> <<>>, plans |-> <<>>,
                normalized |-> <<>>, fo_normalized |-> <<>>, detected |-> <<>>,
                extracted |-> <<>>, analyzed |-> <<>>,
                dry_runs |-> <<>>, real_runs |-> <<>>, rollbacks |-> <<>> ]

NextMedia ==
    \/ ScanDirectory
    \/ PlanOrganization
    \/ ExecuteRename
    \/ ExecuteMove
    \/ ExecuteReturn

SpecMedia == InitMedia /\ [][NextMedia]_vars

(***************************************************************************)
(* The program: agent.py organize and agent.py undo, where the user brings *)
(* a new file into the folder between the run and its undo and calls undo  *)
(* on the same log a second time                                           *)
(***************************************************************************)
\* the trees of the runs that are undone
UndoTrees == {t \in Trees : Cardinality(t) < MaxFiles}

InitUndo ==
    /\ Init
    /\ ~config.dry_run
    /\ config.naming_rules = NAMING_RULES
    /\ \E t \in UndoTrees : DOMAIN fs.files = t

\* the paths the saved log names as origins
LoggedOrigins ==
    { PathOf(result.log_entries[k].from) : k \in DOMAIN result.log_entries }

\* the content of the file the user brings in
NewFile == Data(<<"new">>)

\* between the run and its undo the user puts a new file where a file of the
\* batch was
UserCreatesFile ==
    /\ pc = "saved"
    /\ NewFile \notin {fs.files[p] : p \in DOMAIN fs.files}
    /\ \E p \in LoggedOrigins \ DOMAIN fs.files :
           /\ IsDir(fs, Parent(p))
           /\ ~IsDir(fs, p)
           /\ fs' = [fs EXCEPT !.files = WithFile(@, p, NewFile)]
    /\ UNCHANGED <<config, db, now, pc, files, plan, i, result, log_path, rb, hist>>

\* agent.py undo once more: rollback(log_path) on the log that a first call
\* has replayed, up to its loop
RollbackAgain ==
    /\ pc = "done"
    /\ rb.status = "completed"
    /\ hist.rollbacks = <<>>
    /\ load_log(fs, log_path).ok
    /\ ~IsDryRunLog(load_log(fs, log_path).data)
    /\ "actions" \in DOMAIN load_log(fs, log_path).data
    /\ rb' = [NoRollback EXCEPT !.status = "running",
                                !.actions = load_log(fs, log_path).data.actions,
                                !.todo = ReplayOrder(Len(load_log(fs, log_path).data.actions))]
    /\ pc' = "rollback"
    /\ hist' = [hist EXCEPT !.rollbacks = <<[fs |-> fs, reversed |-> rb.reversed,
                                             errors |-> rb.errors]>>]
    /\ UNCHANGED <<fs, config, db, now, files, plan, i, result, log_path>>

NextUndo ==
    \/ ScanDirectory
    \/ PlanOrganization
    \/ ExecuteRename
    \/ ExecuteMove
    \/ ExecuteReturn
    \/ SaveLog
    \/ UserDeletesFile
    \/ UserCreatesFile
    \/ LogIsDamaged
    \/ RollbackBegin
    \/ RollbackStep
    \/ CleanupBegin
    \/ CleanupStep
    \/ RollbackReturn
    \/ RollbackAgain

SpecUndo == InitUndo /\ [][NextUndo]_vars

(***************************************************************************)
(* The program: agent.py organize under the user's organizer-config.json,  *)
(* in a folder that holds the log of an earlier run, up to the plan        *)
(***************************************************************************)
\* user_config.default_config() and the flag --dry-run
default_config(dry_run) ==
    [ categories |-> DEFAULT_CATEGORIES,
      naming_rules |-> NAMING_RULES,
      skip_directories |-> SKIP_DIRECTORIES,
      skip_files |-> SKIP_FILES,
      organize_into_folders |-> TRUE,
      recursive |-> TRUE,
      dry_run |-> dry_run ]

\* the keys of the user's file that replace the default
ReplacedKeys == {"skip_directories", "skip_files", "organize_into_folders", "recursive"}

\* load_config(config_path) for a file that holds the JSON object user_cfg;
\* the keys categories and naming_rules, which are merged, are not drawn
load_config(user_cfg, dry_run) ==
    [ k \in DOMAIN default_config(dry_run) |->
        IF k \in ReplacedKeys /\ k \in DOMAIN user_cfg THEN user_cfg[k]
        ELSE default_config(dry_run)[k] ]

\* a JSON object of one key, or of none
Key(present, k, value) == IF present THEN (k :> value) ELSE <<>>

\* what the user writes for skip_directories: nothing, or a list of their own
UserSkipLists == { {}, {Dir_git}, {Dir_git, LOG_DIR_NAME} }

\* the files config.json of the user
UserConfigs ==
    { Key(has_skip, "skip_directories", skip) @@ Key(has_folders, "organize_into_folders", folders)
          @@ Key(has_recursive, "recursive", recursive) :
          has_skip \in BOOLEAN, skip \in UserSkipLists,
          has_folders \in BOOLEAN, folders \in BOOLEAN,
          has_recursive \in BOOLEAN, recursive \in BOOLEAN }

\* the folder: two files of the user, a file in .git, the log of an earlier run
RerunFiles ==
    { Root \o <<File_a_txt>>,
      Root \o <<File_d_pdf>>,
      Root \o <<Dir_git, File_a_txt>>,
      get_log_dir(Root) \o <<LogFileName(0, FALSE)>> }

RerunTrees == {t \in SUBSET RerunFiles : Cardinality(t) \in 1..MaxFiles}

InitRerun ==
    /\ \E t \in RerunTrees : fs = TreeFs(t)
    /\ \E user_cfg \in UserConfigs, dry_run \in BOOLEAN :
           config = load_config(user_cfg, dry_run)
    /\ now = 0
    /\ pc = "scan"
    /\ files = <<>>
    /\ plan = EmptyPlan
    /\ i = 1
    /\ result = NoResult
    /\ log_path = <<>>
    /\ rb = NoRollback
    /\ db = EmptyDb
    /\ hist = [ fs0 |-> fs, attempted |-> <<>>, exec_calls |-> 0, faults |-> 0,
                fs_saved |-> fs, fs_undo |-> fs, undone |-> <<>>, rb_calls |-> 0,
                removed |-> {}, log_edit |-> "none", deleted |-> {},
                failed |-> <<>>, missing |-> {}, fs_replayed |-> fs,
                saved |-> <<>>, plans |-> <<>>,
                normalized |-> <<>>, fo_normalized |-> <<>>, detected |-> <<>>,
                extracted |-> <<>>, analyzed |-> <<>>,
                dry_runs |-> <<>>, real_runs |-> <<>>, rollbacks |-> <<>> ]

NextRerun ==
    \/ ScanDirectory
    \/ PlanOrganization

SpecRerun == InitRerun /\ [][NextRerun]_vars

(***************************************************************************)
(* Properties                                                              *)
(***************************************************************************)
\* the path lies in the directory of the logs
InLogDir(p) ==
    /\ Len(p) > Len(get_log_dir(Root))
    /\ SubSeq(p, 1, Len(get_log_dir(Root))) = get_log_dir(Root)

\* the files of f that are not logs, with their contents
UserFiles(f) == [p \in {q \in DOMAIN f.files : ~InLogDir(q)} |-> f.files[p]]

\* rollback(log_path) has been called
RollbackCalled == pc \in {"rollback", "cleanup"} \/ (pc = "done" /\ rb.status # "none")

\* the destination and the original of the k-th action of a plan, renames first
Destination(p, k) ==
    IF k <= Len(p.renames) THEN p.renames[k].new_path
    ELSE p.moves[k - Len(p.renames)].destination

ActionOriginal(p, k) ==
    IF k <= Len(p.renames) THEN p.renames[k].original
    ELSE p.moves[k - Len(p.renames)].original

\* the name the planner's normalizer gives the file at path
NormalizedName(path) ==
    normalize_filename(FileEntry(path, config.categories).stem,
                       FileEntry(path, config.categories).extension,
                       config.naming_rules, <<>>, <<>>)

\* C1: after plan, real execution, save_log and a completed rollback, with no
\* refusal by the operating system, no file deleted and the log untouched in
\* between, the files other than logs are the original paths with their
\* original contents.
C1_RoundTripRestores ==
    (/\ pc = "done"
     /\ rb.status = "completed"
     /\ hist.faults = 0
     /\ hist.deleted = {}
     /\ hist.log_edit = "none")
        => UserFiles(fs) = hist.fs0.files

\* C2: no two actions of the plan have the same destination path, and two
\* destinations in one directory differ even when compared without case.
C2_DistinctDestinations ==
    \A a, b \in 1..total_actions(plan) :
        a # b =>
            /\ Destination(plan, a) # Destination(plan, b)
            /\ Parent(Destination(plan, a)) = Parent(Destination(plan, b))
                   => Lower(BaseName(Destination(plan, a)))
                          # Lower(BaseName(Destination(plan, b)))

\* two files that normalize to one name are planned into one directory
C2_Witness ==
    \E a, b \in 1..total_actions(plan) :
        /\ a # b
        /\ Parent(Destination(plan, a)) = Parent(Destination(plan, b))
        /\ NormalizedName(ActionOriginal(plan, a)) = NormalizedName(ActionOriginal(plan, b))

\* the log at log_path is a JSON document whose dry_run field is true
LogSaysDryRun ==
    /\ load_log(fs, log_path).ok
    /\ "dry_run" \in DOMAIN load_log(fs, log_path).data
    /\ load_log(fs, log_path).data.dry_run = TRUE

\* C3: rollback on a log whose dry_run field is true returns "skipped" and
\* has issued no filesystem call: the filesystem is the one it was called on,
\* no action was replayed and no directory removed.
C3_DryRunLogIsSkipped ==
    (RollbackCalled /\ LogSaysDryRun)
        => /\ pc = "done"
           /\ rb.status = "skipped"
           /\ fs = hist.fs_undo
           /\ hist.rb_calls = 0
           /\ hist.undone = <<>>
           /\ hist.removed = {}

\* a dry-run log was skipped although a file is at the "to" of one of its actions
C3_Witness ==
    /\ pc = "done"
    /\ rb.status = "skipped"
    /\ LogSaysDryRun
    /\ "actions" \in DOMAIN load_log(fs, log_path).data
    /\ \E k \in DOMAIN load_log(fs, log_path).data.actions :
           /\ "to" \in DOMAIN load_log(fs, log_path).data.actions[k]
           /\ IsFile(fs, PathOf(load_log(fs, log_path).data.actions[k].to))

\* C4: a dry run of execute_plan issues no filesystem call and leaves the
\* filesystem as it found it, and when it returns it has counted every rename
\* and every move of the plan as done, with no error.
C4_DryRunTouchesNothing ==
    (config.dry_run /\ pc \in {"exec", "executed"})
        => /\ fs = hist.fs0
           /\ hist.exec_calls = 0
           /\ result.errors = <<>>
           /\ result.renames_done + result.moves_done = Len(hist.attempted)
           /\ pc = "executed" => /\ result.renames_done = Len(plan.renames)
                                 /\ result.moves_done = Len(plan.moves)

\* a dry run has returned for a plan with a move into a directory that does
\* not exist
C4_Witness ==
    /\ config.dry_run
    /\ pc = "executed"
    /\ \E k \in DOMAIN plan.moves : ~IsDir(fs, Parent(plan.moves[k].destination))
    /\ result.moves_done = Len(plan.moves)

\* the log entries of execute_plan(plan, dry_run=True) on the filesystem the
\* run started from
DryRunEntries == execute_plan(hist.fs0, plan, TRUE).result.log_entries

\* an entry without its dry_run flag
Unflagged(entry) == WithoutKey(entry, "dry_run")

\* the indices of the actions the real run carried out, in plan order
Succeeded ==
    SelectSeq([k \in 1..total_actions(plan) |-> k],
              LAMBDA k : k \notin Range(hist.failed))

\* C5 as stated: the log entries of a real run are those of the dry run of the
\* same plan, entry by entry, but for the dry_run flag.
C5_SameEntries ==
    (~config.dry_run /\ pc = "executed")
        => /\ Len(result.log_entries) = Len(DryRunEntries)
           /\ \A k \in DOMAIN result.log_entries :
                  k \in DOMAIN DryRunEntries
                      /\ result.log_entries[k] = Unflagged(DryRunEntries[k])

\* C5 amended: the log entries of a real run are the dry-run entries, but for
\* the dry_run flag, of exactly the actions that succeeded, in plan order; a
\* real run without a failure logs every entry of the dry run.
C5_RealLogIsDryLogOfSucceeded ==
    (~config.dry_run /\ pc = "executed")
        => /\ result.log_entries =
                  [k \in 1..Len(Succeeded) |-> Unflagged(DryRunEntries[Succeeded[k]])]
           /\ hist.failed = <<>> => Len(result.log_entries) = Len(DryRunEntries)

\* a real run has returned with an action that failed and one that is logged
C5_Witness ==
    /\ ~config.dry_run
    /\ pc = "executed"
    /\ hist.failed # <<>>
    /\ \E k \in DOMAIN result.log_entries : result.log_entries[k].type = "move"

\* C6: a real run attempts the actions of the plan one after the other and all
\* of them; every failure is one entry of errors that carries the original
\* path of the failed action, and every action is either done or an error.
C6_EveryActionAttempted ==
    ~config.dry_run
        => /\ hist.attempted = [k \in 1..Len(hist.attempted) |-> k]
           /\ pc \in {"executed", "saved", "rollback", "cleanup"}
                  => Len(hist.attempted) = total_actions(plan)
           /\ Len(result.errors) = Len(hist.failed)
           /\ \A k \in DOMAIN result.errors :
                  /\ k \in DOMAIN hist.failed
                  /\ result.errors[k].path = ActionOriginal(plan, hist.failed[k])
           /\ result.renames_done + result.moves_done + Len(result.errors)
                  = Len(hist.attempted)

\* a real run has returned after a failure that was not the last action
C6_Witness ==
    /\ ~config.dry_run
    /\ pc = "executed"
    /\ hist.failed # <<>>
    /\ hist.failed[1] < total_actions(plan)
    /\ hist.attempted[Len(hist.attempted)] = total_actions(plan)

\* C7: rollback visits the entries of the log last to first: the k-th entry
\* it handles is the k-th from the end, and the loop ends only after the
\* first entry.
C7_StrictReverseOrder ==
    /\ \A k \in DOMAIN hist.undone : hist.undone[k] = Len(rb.actions) - k + 1
    /\ pc = "cleanup" => Len(hist.undone) = Len(rb.actions)

\* the replay of a log of three actions is through
C7_Witness ==
    /\ pc = "cleanup"
    /\ Len(rb.actions) = 3
    /\ Len(hist.undone) = 3

\* C8: on a log as save_log wrote it, an action whose "to" is gone when
\* rollback reaches it gives exactly one error for that action and is not
\* counted as reversed; rollback handles every other action and returns
\* "completed".
C8_MissingFileIsOneError ==
    hist.log_edit = "none"
        => /\ \A k \in hist.missing :
                  /\ Cardinality({e \in DOMAIN rb.errors :
                                     rb.errors[e].action = rb.actions[k]}) = 1
                  /\ \A e \in DOMAIN rb.errors :
                         rb.errors[e].action = rb.actions[k]
                             => rb.errors[e].error = "File not found"
           /\ rb.reversed + Cardinality(hist.missing) <= Len(hist.undone)
           /\ (hist.missing # {} /\ pc \in {"cleanup", "done"})
                  => Len(hist.undone) = Len(rb.actions)
           /\ (hist.missing # {} /\ pc = "done") => rb.status = "completed"

\* rollback has completed: one file was gone, an action after it was reversed
C8_Witness ==
    /\ pc = "done"
    /\ rb.status = "completed"
    /\ hist.log_edit = "none"
    /\ \E k \in hist.missing : k > 1
    /\ rb.reversed > 0
    /\ Len(rb.errors) = 1

\* C9: rollback of the log of a real run that is no JSON document or lacks
\* "actions" or the "from" or "to" of an entry changes nothing in the
\* filesystem and ends in an error.
C9_MalformedLogFails ==
    (hist.log_edit # "none" /\ ~config.dry_run /\ RollbackCalled)
        => /\ fs = hist.fs_undo
           /\ pc = "done" => rb.status = "raised"

\* C10: when rollback has completed, a directory that was the parent of a
\* move destination of the log has been removed by the cleanup if and only if
\* it was a directory after the replay and nothing is in it at the end.
C10_EmptyDestinationDirsRemoved ==
    (pc = "done" /\ rb.status = "completed")
        => \A d \in DirsToCheck(rb.actions).dirs :
               d \in hist.removed
                   <=> (IsDir(hist.fs_replayed, d) /\ ~HasEntries(fs, d))

\* C11: a directory that existed before execute_plan ran is still there once
\* execute_plan and a completed rollback are through.
C11_OldDirectoriesStay ==
    (pc = "done" /\ rb.status = "completed") => hist.fs0.dirs \subseteq fs.dirs

\* C12: every save_log call on the root has made a file of its own, and the
\* file of every earlier call is still there with the content that call wrote.
C12_LogsSeparateAndUnchanged ==
    \A k \in DOMAIN hist.saved :
        /\ IsFile(fs, hist.saved[k].path)
        /\ fs.files[hist.saved[k].path] = hist.saved[k].content
        /\ \A j \in DOMAIN hist.saved : j # k => hist.saved[j].path # hist.saved[k].path

\* C13: two calls of plan_organization of file_organizer.py with equal
\* descriptors, target root, rules and folder flag return equal plans,
\* whatever happened to the files and the clock between them.
C13_EqualInputsEqualPlans ==
    \A j, k \in DOMAIN hist.plans : hist.plans[j] = hist.plans[k]

\* C14: every rename of a plan keeps the file in the directory it is in; an
\* action that takes a file to another directory is among the moves.
C14_RenamesStayInPlace ==
    \A k \in DOMAIN plan.renames :
        Parent(plan.renames[k].new_path) = Parent(plan.renames[k].original)

\* plan_organization has returned a plan with two renames
C14_Witness ==
    /\ pc = "exec"
    /\ i = 1
    /\ Len(plan.renames) >= 2

\* C15: normalizing the stem of an already normalized name again, with the
\* same rules, returns the name unchanged, for normalize_filename of
\* renamer.py and of file_organizer.py.
C15_NormalizeIdempotent ==
    /\ \A k \in DOMAIN hist.normalized : hist.normalized[k] = hist.normalized[1]
    /\ \A k \in DOMAIN hist.fo_normalized : hist.fo_normalized[k] = hist.fo_normalized[1]

\* C16: every call of extract_pdf_metadata, extract_jpeg_metadata,
\* extract_id3_metadata and extract_office_metadata, on whole, truncated and
\* invalid files alike, returns a map; no exception reaches the caller.
C16_ExtractorsReturnAMap ==
    \A k \in DOMAIN hist.extracted : hist.extracted[k].outcome.raised = ""

\* the exception the first failing step of the ZIP promotion raises inside
\* _is_zip_based_office, "" when no step fails
MimetypeFault(archive) ==
    IF HasMember(archive, Name_mimetype) THEN MemberOf(archive, Name_mimetype).fault ELSE ""

PromotionFault(archive) ==
    IF archive = NoArchive THEN "BadZipFile"
    ELSE IF ~HasMember(archive, Name_ContentTypes) THEN MimetypeFault(archive)
    ELSE IF MemberOf(archive, Name_ContentTypes).fault # ""
    THEN MemberOf(archive, Name_ContentTypes).fault
    ELSE IF OfficeByContentTypes(MemberOf(archive, Name_ContentTypes).text) # NoSignature
    THEN ""
    ELSE MimetypeFault(archive)

\* the calls of analyze_file on a ZIP file whose promotion step fails
FailedPromotions ==
    {k \in DOMAIN hist.analyzed :
        /\ detect_file_type(fs, hist.analyzed[k].filepath, hist.analyzed[k].denied).mime
               = Mime_zip
        /\ PromotionFault(fs.files[hist.analyzed[k].filepath].archive) # ""}

\* C17: detect_file_type returns a signature of the table, one of the refined
\* signatures, or None, and analyze_file on a ZIP file whose promotion step
\* fails returns the ZIP result of detect_file_type and raises nothing.
C17_FailedPromotionKeepsZip ==
    /\ \A k \in DOMAIN hist.detected :
           hist.detected[k].sig = detect_file_type(fs, hist.detected[k].filepath,
                                                   hist.detected[k].denied)
    /\ \A k \in FailedPromotions :
           /\ hist.analyzed[k].outcome.raised = ""
           /\ hist.analyzed[k].outcome.value.detected_type = Mime_zip
           /\ hist.analyzed[k].outcome.value.detected_extension = <<".","z","i","p">>

\* the sub type of a header, header[8:12]
SubTypeOf(filepath) == Bytes(fs.files[filepath].bytes, 8, 12)

\* the calls of detect_file_type that read a file beginning with RIFF
RiffDetections ==
    {k \in DOMAIN hist.detected :
        /\ ~hist.detected[k].denied
        /\ Bytes(fs.files[hist.detected[k].filepath].bytes, 0, 4) = Magic_RIFF}

\* C20: for a header that begins with RIFF, detect_file_type returns WAV, AVI
\* or WebP exactly when bytes 8 to 12 are WAVE, "AVI " or WEBP, and no match in
\* every other case.
C20_RiffBySubType ==
    \A k \in RiffDetections :
        hist.detected[k].sig =
            CASE SubTypeOf(hist.detected[k].filepath) = Encode(<<"W","A","V","E">>) -> Sig_WAV
              [] SubTypeOf(hist.detected[k].filepath) = Encode(<<"A","V","I"," ">>) -> Sig_AVI
              [] SubTypeOf(hist.detected[k].filepath) = Encode(<<"W","E","B","P">>) -> Sig_WebP
              [] OTHER -> NoSignature

\* the new_path values of the moves a call of organize returned
NewPaths(moves) == [k \in DOMAIN moves |-> moves[k].new_path]

\* a dry run and a real run were given the same records on the same filesystem
SameStart(dry, real) == dry.fs = real.fs /\ dry.records = real.records

\* C18: a dry run of Organizer.organize returns moves with the same new_path
\* values as the real run on the same records and the same filesystem, and no
\* two moves a dry run returns share a new_path.
C18_DryRunPlansTheRealRun ==
    /\ \A j \in DOMAIN hist.dry_runs, k \in DOMAIN hist.real_runs :
           SameStart(hist.dry_runs[j], hist.real_runs[k])
               => NewPaths(hist.dry_runs[j].moves) = NewPaths(hist.real_runs[k].moves)
    /\ \A j \in DOMAIN hist.dry_runs :
           \A a, b \in DOMAIN hist.dry_runs[j].moves :
               a # b => hist.dry_runs[j].moves[a].new_path # hist.dry_runs[j].moves[b].new_path

\* the calls of organize made so far, dry runs and real runs
AllRuns == hist.dry_runs \o hist.real_runs

\* the moves of a run that belong to the record
MovesFor(run, record) ==
    {k \in DOMAIN run.moves :
        /\ run.moves[k].file_record_id = record.id
        /\ run.moves[k].old_path = record.file_path}

\* the record is not flagged for review and lacks a category or a document type
Unclassified(record) ==
    ~record.needs_review /\ (record.category = <<>> \/ record.document_type = <<>>)

\* the classifier has filled in both and has not flagged the record
Classified(record) ==
    ~record.needs_review /\ record.category # <<>> /\ record.document_type # <<>>

\* the path _organize_file builds for the record
NewPathOf(record) ==
    _build_destination_path(config, record) \o <<_build_filename(config, record, now)>>

\* the file of the record lies elsewhere and the path of its destination is
\* short enough
HasToMove(record) ==
    /\ normpath(record.file_path) # normpath(NewPathOf(record))
    /\ PathLen(NewPathOf(record)) < config.max_path_length

\* no run moves a record that lacks its classification
NoMoveUnclassified ==
    \A j \in DOMAIN AllRuns : \A r \in DOMAIN AllRuns[j].records :
        Unclassified(AllRuns[j].records[r])
            => MovesFor(AllRuns[j], AllRuns[j].records[r]) = {}

\* every record a run moves outside the review folder was classified before
MovedAfterClassified ==
    \A j \in DOMAIN AllRuns : \A r \in DOMAIN AllRuns[j].records :
        MovesFor(AllRuns[j], AllRuns[j].records[r]) # {}
            => AllRuns[j].records[r].classified_by # ""

HeaderOf(filepath) == Bytes(fs.files[filepath].bytes, 0, 64)

\* the offsets from 4 to 32 at which the header holds ftyp and a whole brand
FtypOffsetsOf(header) ==
    {o \in 4..32 : Len(header) >= o + 8 /\ Bytes(header, o, o + 4) = Magic_ftyp}

\* the calls of detect_file_type that read an ISO base media header
FtypDetections ==
    {k \in DOMAIN hist.detected :
        /\ ~hist.detected[k].denied
        /\ FtypOffsetsOf(HeaderOf(hist.detected[k].filepath)) # {}}

\* the brand that follows the first ftyp of the header
FtypBrandOf(header) == Bytes(header, MinOf(FtypOffsetsOf(header)) + 4, MinOf(FtypOffsetsOf(header)) + 8)

\* what a signature says of the type of the file
TypeOfSignature(sig) ==
    [ mime |-> sig.mime, category |-> sig.category, extension |-> sig.extension,
      description |-> sig.description ]

TypeOfBrand(ftyp_brand) ==
    IF ftyp_brand \in Brands_M4A THEN TypeOfSignature(Sig_M4A(Magic_ftyp, 0))
    ELSE IF ftyp_brand = Encode(<<"q","t"," "," ">>) THEN TypeOfSignature(Sig_MOV(Magic_ftyp))
    ELSE TypeOfSignature(Sig_MP4(0))

\* C21: for a header that holds ftyp at an offset from 4 to 32, the type that
\* detect_file_type returns depends on the brand that follows ftyp alone:
\* M4A audio for the brand M4A, QuickTime .mov for the brand "qt  " and MP4
\* video for every other brand, whatever the box length and the offset.
C21_FtypByBrand ==
    \A k \in FtypDetections :
        TypeOfSignature(hist.detected[k].sig)
            = TypeOfBrand(FtypBrandOf(HeaderOf(hist.detected[k].filepath)))

\* ---------------------------------------------------------------------------
\* The names of a batch
\* ---------------------------------------------------------------------------

\* where the plan leaves the file of an entry: the destination of its action,
\* its own path when the plan holds no action for it
PlannedPath(p, entry) ==
    IF \E a \in 1..total_actions(p) : ActionOriginal(p, a) = entry.path
    THEN Destination(p, CHOOSE a \in 1..total_actions(p) : ActionOriginal(p, a) = entry.path)
    ELSE entry.path

\* the lowercase names the entries before the k-th were given in the directory dir
NamesBefore(p, entries, k, dir) ==
    { Lower(BaseName(PlannedPath(p, entries[j]))) :
          j \in {q \in 1..(k - 1) : Parent(PlannedPath(p, entries[q])) = dir} }

\* the name with the zero-padded number n appended to its stem
Suffixed(name, n) == PathStem(name) \o <<"_">> \o Format02d(n) \o PathSuffix(name)

\* the name itself when it is unused, else the name with the smallest unused
\* zero-padded suffix
FirstUnused(name, used) ==
    IF Lower(name) \notin used THEN name
    ELSE Suffixed(name, MinOf({n \in 1..(Cardinality(used) + 1) : Lower(Suffixed(name, n)) \notin used}))

\* the plan of plan_organization is at hand
Planned == pc \notin {"scan", "plan"}

\* C22: every entry of the batch is planned under its normalized name when no
\* earlier entry was given that name in the destination directory, and else
\* under the normalized name with the smallest unused zero-padded numeric
\* suffix appended to its stem (report_01.pdf for a second report.pdf).
C22_ZeroPaddedSuffix ==
    Planned =>
        \A k \in DOMAIN files :
            BaseName(PlannedPath(plan, files[k]))
                = FirstUnused(NormalizedName(files[k].path),
                              NamesBefore(plan, files, k, Parent(PlannedPath(plan, files[k]))))

\* ---------------------------------------------------------------------------
\* The order of date and descriptor
\* ---------------------------------------------------------------------------

\* the date normalize_filename finds in the name of an entry
DateInName(entry) == _extract_existing_date(entry.stem).date

\* the planned name of an entry without its extension
PlannedStem(p, entry) == PathStem(BaseName(PlannedPath(p, entry)))

\* the date stands first in the stem and a descriptor follows it
DateFirst(stem, date_str) ==
    StartsWith(stem, date_str) /\ Len(stem) > Len(date_str)

\* a descriptor stands first in the stem and the date follows it
DescriptorFirst(stem, date_str) ==
    ~StartsWith(stem, date_str) /\ Contains(stem, date_str)

\* the planned name holds both a date and a descriptor
HasBoth(stem, date_str) ==
    date_str # <<>> /\ Contains(stem, date_str) /\ Len(stem) > Len(date_str)

\* C23: in every planned name that holds a date and a descriptor, the date
\* stands before the descriptor when the entry is an image, audio or video
\* file and the descriptor before the date when it is a document; the image
\* IMG_2024-01-15_vacation.JPG is planned as 20240115_vacation.jpg.
C23_MediaDateFirst ==
    Planned =>
        \A k \in DOMAIN files :
            /\ HasBoth(PlannedStem(plan, files[k]), DateInName(files[k]))
                   => IF IsMedia(files[k].category)
                      THEN DateFirst(PlannedStem(plan, files[k]), DateInName(files[k]))
                      ELSE DescriptorFirst(PlannedStem(plan, files[k]), DateInName(files[k]))
            /\ (files[k].name = File_IMG_vacation_JPG /\ k = 1 /\ config.naming_rules.lowercase)
                   => BaseName(PlannedPath(plan, files[k]))
                          = <<"2","0","2","4","0","1","1","5","_","v","a","c","a","t","i","o","n",".","j","p","g">>

\* ---------------------------------------------------------------------------
\* Occupied destinations
\* ---------------------------------------------------------------------------

\* the contents of the files of f
ContentsOf(f) == {f.files[p] : p \in DOMAIN f.files}

\* C24: while and after a real execute_plan runs the plan of
\* plan_organization, the tree holds as many files as before the run, with
\* the same contents: no action has replaced the file that occupied its
\* destination.
C24_ExecutionKeepsEveryFile ==
    (pc \in {"exec", "executed"} /\ ~config.dry_run)
        => /\ Cardinality(DOMAIN fs.files) = Cardinality(DOMAIN hist.fs0.files)
           /\ ContentsOf(fs) = ContentsOf(hist.fs0)

\* ---------------------------------------------------------------------------
\* Undo onto an occupied path
\* ---------------------------------------------------------------------------

\* the action rollback undoes next
ActionToUndo == rb.actions[Head(rb.todo)]

\* rollback is about to undo an action whose file is at its "to" path while
\* another file is at its "from" path
UndoOntoFile ==
    /\ pc = "rollback"
    /\ rb.todo # <<>>
    /\ "to" \in DOMAIN ActionToUndo /\ ActionToUndo.to # <<>>
    /\ "from" \in DOMAIN ActionToUndo /\ ActionToUndo.from # <<>>
    /\ IsFile(fs, PathOf(ActionToUndo.to))
    /\ IsFile(fs, PathOf(ActionToUndo.from))
    /\ PathOf(ActionToUndo.to) # PathOf(ActionToUndo.from)

\* C25: when rollback undoes an action while a file exists at the action's
\* "from" path, it reports the action as an error and leaves the file at the
\* "from" path and the file at the "to" path as they are.
C25_UndoNeverOverwrites ==
    [][UndoOntoFile => /\ Len(rb'.errors) = Len(rb.errors) + 1
                       /\ rb'.reversed = rb.reversed
                       /\ fs'.files = fs.files]_vars

\* ---------------------------------------------------------------------------
\* The counts and the log of a run
\* ---------------------------------------------------------------------------

\* the log entry of the k-th action of a plan, renames first
EntryOf(p, k, dry_run) ==
    IF k <= Len(p.renames) THEN RenameEntry(p.renames[k], dry_run)
    ELSE MoveEntry(p.moves[k - Len(p.renames)], dry_run)

\* execute_plan has returned, or the plan was empty and it was never called
Executed == pc \notin {"scan", "plan", "exec"}

\* the counts of the ExecutionResult agree with its log and with the plan
CountsAgree ==
    /\ result.renames_done + result.moves_done = Len(result.log_entries)
    /\ pc = "exec"
           => result.renames_done + result.moves_done + Len(result.errors) = i - 1
    /\ Executed
           => result.renames_done + result.moves_done + Len(result.errors)
                  = total_actions(plan)

\* a real run has handled its next action: the log has gained the entry of
\* that action when the files have changed, and else nothing but an error
\* was recorded
LoggedIffDone ==
    (pc = "exec" /\ ~config.dry_run /\ i' = i + 1)
        => IF fs'.files # fs.files
           THEN /\ result'.log_entries
                       = Append(result.log_entries, EntryOf(plan, i, FALSE))
                /\ result'.errors = result.errors
           ELSE /\ result'.log_entries = result.log_entries
                /\ Len(result'.errors) = Len(result.errors) + 1

\* C26: after execute_plan renames_done + moves_done is the number of log
\* entries and renames_done + moves_done + len(errors) is total_actions of
\* the plan; in a real run the log gains the entry of an action exactly when
\* the filesystem operation of that action succeeded, in the order of
\* execution.
C26_LogMatchesWhatWasDone ==
    /\ []CountsAgree
    /\ [][LoggedIffDone]_vars

\* a real run of several actions has returned with an action that failed and
\* an action that was done and logged
C26_Witness ==
    /\ pc = "executed"
    /\ ~config.dry_run
    /\ result.errors # <<>>
    /\ result.log_entries # <<>>
    /\ fs.files # hist.fs0.files

\* ---------------------------------------------------------------------------
\* Organizing once more
\* ---------------------------------------------------------------------------

\* the plans of the next run: scan_directory on the tree at hand, in any order
\* of the walk, and plan_organization with the same rules
PlansOfNextRun ==
    { plan_organization([k \in DOMAIN order |-> FileEntry(order[k], config.categories)],
                        Root, config.naming_rules, config.organize_into_folders) :
          order \in WalkOrders(ScannedPaths(DOMAIN fs.files, Root, config.recursive,
                                            OrDefault(config.skip_directories, SKIP_DIRECTORIES),
                                            OrDefault(config.skip_files, SKIP_FILES))) }

\* a real run has returned without an error
RanClean == pc = "executed" /\ ~config.dry_run /\ result.errors = <<>>

\* C27: after a scan, plan_organization and a real execute_plan that reports
\* no error, scanning the tree and planning again with the same rules gives a
\* plan of no action.
C27_OrganizedIsFixedPoint ==
    RanClean => \A p \in PlansOfNextRun : total_actions(p) = 0

\* ---------------------------------------------------------------------------
\* Undo twice
\* ---------------------------------------------------------------------------

\* rollback was called a second time on the log as the run wrote it, after a
\* first call that reported no error
SecondRollback ==
    /\ hist.rollbacks # <<>>
    /\ hist.log_edit = "none"
    /\ hist.rollbacks[1].errors = <<>>

\* C28: a second rollback of the log of a real run, made after the first,
\* reverses no action and leaves the filesystem, files and directories, as
\* the first rollback left it.
C28_SecondRollbackChangesNothing ==
    SecondRollback => /\ rb.reversed = 0
                      /\ fs = hist.rollbacks[1].fs

\* ---------------------------------------------------------------------------
\* The rows of moved files
\* ---------------------------------------------------------------------------

\* the rows of the table files whose file_path is path
RowsAt(d, path) == {k \in DOMAIN d.files : d.files[k].file_path = path}

\* the moves of the latest real run
LatestMoves ==
    IF hist.real_runs = <<>> THEN {}
    ELSE {hist.real_runs[Len(hist.real_runs)].moves[m] :
              m \in DOMAIN hist.real_runs[Len(hist.real_runs)].moves}

\* C29: after a real organize run the table files holds one row for every
\* moved file, at its new path, and no row at its old path, and file_count()
\* is what it was before organizing.
C29_OneRowPerMovedFile ==
    /\ \A move \in LatestMoves :
           /\ Cardinality(RowsAt(db, move.new_path)) = 1
           /\ RowsAt(db, move.old_path) = {}
    /\ file_count(db) = Cardinality(DOMAIN hist.fs0.files)

\* ---------------------------------------------------------------------------
\* The logs of earlier runs
\* ---------------------------------------------------------------------------

\* C30: under every configuration load_config returns, scan_directory reports
\* no file below the directory .file-organizer-logs and the plan renames or
\* moves no such file.
C30_LogsAreNeverScanned ==
    /\ \A k \in DOMAIN files : ~InLogDir(files[k].path)
    /\ \A a \in 1..total_actions(plan) : ~InLogDir(ActionOriginal(plan, a))

=============================================================================
